---- MODULE Spec2Model ----
(***************************************************************************)
(* State-machine model of the desktop automation tool.                     *)
(*                                                                         *)
(*   Spec     the Playback Engine (src/playback.py): one executor thread   *)
(*            running PlaybackEngine.execute step by step, and the control *)
(*            calls pause / resume / abort arriving from another thread.   *)
(*   RecSpec  the Action Recorder (src/recorder.py): the listener, timer   *)
(*            and GUI callbacks acting on one ActionRecorder.              *)
(*   TimedRecSpec  the Action Recorder with a clock: keyboard and scroll   *)
(*            events, the passage of time and the scroll timer.            *)
(*   SchedSpec  the Automation Scheduler (src/scheduler.py): run_now and   *)
(*            the jobs firing on the pool, _execute_schedule step by step  *)
(*            with every outcome, one execution at a time.                 *)
(*   TimetableSpec  the scheduler's jobs: schedules of every frequency,    *)
(*            the GUI's calls, the process stopping and starting again.    *)
(*   ConcSpec  the scheduler's pool thread and GUI thread side by side.    *)
(*   CredSpec  the Credential Manager (src/credentials.py): credentials    *)
(*            stored in one manager, exported, imported into another.      *)
(*   ImportSpec  imports of exported, altered or truncated bytes.          *)
(*   FallbackSpec  one manager whose keyring backend fails now and then.   *)
(*   SessionSpec  one storage directory over several sessions.             *)
(*   AuditSpec  the AI Audit Engine (src/ai_engine.py) in one audit run.   *)
(*   RenderSpec  the HTML Report Generator (src/report_generator.py).      *)
(*   SerialSpec  RecordedAction.to_dict and from_dict (src/recorder.py).   *)
(*   LibrarySpec  recordings saved and deleted in the GUI Shell            *)
(*            (src/gui.py, src/database.py) while their schedules fire.    *)
(*   FieldSpec  the recorder while the user types into marked fields.      *)
(*   PausedTypingSpec  the recorder paused and resumed while the user      *)
(*            types.                                                       *)
(*   LiveSpec  executions of the PlaybackEngine under fair scheduling.     *)
(*   PlaySpec  the Play button of the GUI Shell and its PlaybackThreads.   *)
(*   PlayAuditSpec  playbacks from the GUI one after the other, each with  *)
(*            its screenshots and the audit launched when it is done.      *)
(*                                                                         *)
(* Playback and recorder times are in tenths of a second, scheduler times  *)
(* in minutes.                                                             *)
(***************************************************************************)
EXTENDS Integers, Sequences, FiniteSets, TLC

VARIABLES
    \* ---- PlaybackEngine fields (playback.py 199-211) ----
    status,            \* self._status
    abort_requested,   \* self._abort_requested
    pause_event,       \* self._pause_event: TRUE = set (not paused)
    verify_visuals,    \* self.verify_visuals
    \* ---- the executor thread inside execute() ----
    pc,                \* position of the thread in execute()
    recording,         \* the Recording being executed
    idx,               \* loop index of "for idx, action in enumerate(...)"
    attempt,           \* loop variable of _execute_action_with_retry
    result,            \* PlaybackResult returned by _execute_action_with_retry
    exc,               \* text of the exception caught by "except Exception as e"
    report,            \* the PlaybackReport under construction / returned
    \* ---- observations of the environment ----
    attemptLog,        \* attempts and retry sleeps of the action being executed
    lastClick,         \* what the last click attempt did on the screen
    execNotified,      \* last value execute() handed to on_status_change
    actionNotified,    \* calls of on_action_start and on_action_complete in this run
    gateAbort,         \* index the loop was blocked on when abort() arrived
    \* ---- ActionRecorder fields (recorder.py 347-373) ----
    is_recording,      \* self._recording
    paused,            \* self._paused
    actions,           \* self._actions
    action_counter,    \* self._action_counter
    text_buffer,       \* self._text_buffer
    sensitive_mode,    \* self._sensitive_mode
    current_credential,\* self._current_credential
    scroll_pending,    \* self._scroll_start_time is not None
    scroll_buffer_y,   \* self._scroll_buffer_y
    scroll_timer,      \* self._scroll_timer is armed
    scroll_last_x,     \* self._scroll_last_x
    submitted,         \* actions the last step passed to _record_action
    \* ---- the clock of the recorder's environment ----
    since_key,         \* time the pending text has waited since the last keyboard event
    scroll_left,       \* time left on the armed scroll timer
    burst,             \* deltas of the scroll events since the last scroll flush
    \* ---- AutomationScheduler (scheduler.py 296-319) ----
    now,               \* datetime.now(), in minutes
    time_steps,        \* how often time has passed
    sched_started,     \* the process is up and start() has run
    notifier,          \* self._notifier is not None
    schedules,         \* self._schedules
    schedules_file,    \* schedules.json
    jobs,              \* the job store jobs.db
    execs,             \* the calls of _execute_schedule in progress, by thread
    fired,             \* how often the job of a schedule has been run
    last_fired,        \* when the job of a schedule was last run
    runs_started,      \* how many run_now calls there have been
    \* ---- two CredentialManagers (credentials.py 111-121) ----
    cred_phase,        \* "new", "ready", "exported", "imported"
    managers,          \* the exporting manager "src" and the importing one "dst"
    cred_stored,       \* what store_credential has accepted on "src", by name
    cred_calls,        \* how many store_credential calls there have been
    export_data,       \* the bytes export_credentials returned
    export_password,   \* the password they were exported with
    import_password,   \* the password import_credentials was called with
    import_result,     \* what import_credentials returned or raised
    cred_op,           \* the last call that opened a session or set the password
    sessions,          \* how many such calls there have been
    salts_made,        \* how many salts secrets.token_bytes has made
    import_tamper,     \* what happened to the exported bytes before the import
    \* ---- the AI Audit Engine and one audit run (ai_engine.py, gui.py) ----
    audit_pc,          \* position of AuditThread.run
    screenshot_steps,  \* the list AuditThread.run hands to analyze_screenshots
    engine,            \* _api_calls, _input_tokens, _output_tokens
    api_call,          \* the running or last call of _call_api_text
    audit_out,         \* the texts, the AuditReport and the error of the run
    succeeded,         \* the calls of _call_api_text that returned, and their usage
    \* ---- the HTML Report Generator (report_generator.py) ----
    render_report,     \* the AuditReport handed to get_html
    image_files,       \* what is on disk at each screenshot path
    render_clock,      \* the clock of the process
    renders,           \* the documents get_html returned, with the files it saw
    \* ---- one RecordedAction written to a dictionary and read back ----
    ser_phase,         \* "none", "dict" after to_dict, "back" after from_dict
    ser_action,        \* the RecordedAction
    ser_dict,          \* what its to_dict returned
    ser_back,          \* what from_dict made of that
    \* ---- the recordings the GUI Shell keeps (gui.py, database.py) ----
    recording_files,   \* the ids with a JSON file in RECORDINGS_DIR
    db_recordings,     \* the ids with a row in the recordings table
    deleted_recordings, \* the ids the delete workflow has been through
    \* ---- playback from the GUI Shell (gui.py) ----
    gui_selection,     \* the current item of the recordings list
    playback_threads,  \* the PlaybackThreads made so far
    playback_engine,   \* the fields of self.playback_engine that execute resets
    shell_clock,       \* the time, in ticks
    audit_threads,     \* the AuditThreads made so far, with their arguments
    \* ---- where and when the pending text was typed ----
    marked_field,      \* the user is typing into a field marked as sensitive
    typed_tags         \* for each character of text_buffer: typed in a marked
                       \* field, typed while the recorder was paused

pbVars == <<status, abort_requested, pause_event, verify_visuals, pc, recording,
            idx, attempt, result, exc, report, attemptLog, lastClick,
            execNotified, actionNotified, gateAbort>>

recVars == <<is_recording, paused, actions, action_counter, text_buffer,
             sensitive_mode, current_credential, scroll_pending, scroll_buffer_y,
             scroll_timer, scroll_last_x, submitted>>

clockVars == <<since_key, scroll_left, burst>>

\* What the actions of one component leave alone.
schedVars == <<now, time_steps, sched_started, notifier, schedules, schedules_file,
               jobs, execs, fired, last_fired, runs_started>>

credVars == <<cred_phase, managers, cred_stored, cred_calls, export_data,
              export_password, import_password, import_result>>

vaultVars == <<cred_op, sessions, salts_made, import_tamper>>

aiVars == <<audit_pc, screenshot_steps, engine, api_call, audit_out, succeeded>>

renderVars == <<render_report, image_files, render_clock, renders>>

serialVars == <<ser_phase, ser_action, ser_dict, ser_back>>

libraryVars == <<recording_files, db_recordings, deleted_recordings>>

shellVars == <<gui_selection, playback_threads, playback_engine, shell_clock,
               audit_threads>>

fieldVars == <<marked_field, typed_tags>>

nonPbVars ==
    <<recVars, clockVars, schedVars, credVars, vaultVars, aiVars, renderVars, serialVars,
      libraryVars, shellVars, fieldVars>>
nonRecVars ==
    <<pbVars, clockVars, schedVars, credVars, vaultVars, aiVars, renderVars, serialVars,
      libraryVars, shellVars, fieldVars>>
nonTimedVars ==
    <<pbVars, schedVars, credVars, vaultVars, aiVars, renderVars, serialVars,
      libraryVars, shellVars, fieldVars>>
nonSchedVars ==
    <<pbVars, recVars, clockVars, credVars, vaultVars, aiVars, renderVars, serialVars,
      libraryVars, shellVars, fieldVars>>
otherThanCredVars ==
    <<pbVars, recVars, clockVars, schedVars, aiVars, renderVars, serialVars,
      libraryVars, shellVars, fieldVars>>
nonCredVars == <<otherThanCredVars, vaultVars>>
nonAiVars ==
    <<pbVars, recVars, clockVars, schedVars, credVars, vaultVars, renderVars, serialVars,
      libraryVars, shellVars, fieldVars>>
nonRenderVars ==
    <<pbVars, recVars, clockVars, schedVars, credVars, vaultVars, aiVars, serialVars,
      libraryVars, shellVars, fieldVars>>
nonSerialVars ==
    <<pbVars, recVars, clockVars, schedVars, credVars, vaultVars, aiVars, renderVars,
      libraryVars, shellVars, fieldVars>>
nonLibraryVars ==
    <<pbVars, recVars, clockVars, schedVars, credVars, vaultVars, aiVars, renderVars,
      serialVars, shellVars, fieldVars>>
nonShellVars ==
    <<pbVars, recVars, clockVars, schedVars, credVars, vaultVars, aiVars, renderVars,
      serialVars, libraryVars, fieldVars>>
nonFieldVars ==
    <<pbVars, clockVars, schedVars, credVars, vaultVars, aiVars, renderVars, serialVars,
      libraryVars, shellVars>>

vars == <<pbVars, recVars, clockVars, schedVars, credVars, vaultVars, aiVars,
          renderVars, serialVars, libraryVars, shellVars, fieldVars>>

None == "None"

(***************************************************************************)
(* Bounds of the model.                                                    *)
(***************************************************************************)
MaxActions == 2
MaxCounter == 3
MaxText == 2
MaxScroll == 2
MaxBurst == 3
MaxTimedCounter == 2
MaxRuns == 1
MaxTimeSteps == 2
MaxIdle == 6
MaxStores == 2
MaxSessions == 2

(***************************************************************************)
(* Program constants.                                                      *)
(***************************************************************************)
max_retries == 3
retry_delay == 10
VerifyTimeout == 100
VerifyPollSleep == 5
VerifyThreshold == 85
DelayCap == 50
text_flush_delay == 5
ScrollFlushDelay == 3
OnceDelay == 1
HourMinutes == 60
DayMinutes == 1440
WeekMinutes == 10080
MonthDays == 30

(***************************************************************************)
(* Recorded actions and recordings handed to the Playback Engine.          *)
(***************************************************************************)
RecordedImage == "image as recorded"
ChangedImage == "another image"
Images == {RecordedImage, ChangedImage}

RecordedPos == "recorded x,y"
MovedPos == "center of the match"
NotFound == "no location"

ClickTypes == {"mouse_click", "mouse_double_click", "mouse_right_click"}

\* ScreenRegion (recorder.py 50-58).  "pixels" is the content of the PNG file
\* image_path names; a region without a saved image has no file behind it.
NoRegion == [present |-> FALSE, image_path |-> None, image_hash |-> None, pixels |-> None]
RegionNoImage == [present |-> TRUE, image_path |-> None, image_hash |-> None, pixels |-> None]
RegionSaved == [present |-> TRUE, image_path |-> "rec.png",
                image_hash |-> RecordedImage, pixels |-> RecordedImage]

\* RecordedAction (recorder.py 61-99), the fields playback reads.
PlaybackAction(t, r, d) ==
    [action_type |-> t, x |-> RecordedPos, screen_region |-> r, delay_before |-> d]

PlaybackActionSet ==
    { PlaybackAction("mouse_click", RegionSaved, 80),
      PlaybackAction("mouse_double_click", RegionSaved, 0),
      PlaybackAction("mouse_right_click", RegionNoImage, 0),
      PlaybackAction("key_type", NoRegion, 0) }

\* The recordings played: n actions of one kind.
ActionSeqs == { [i \in 1..n |-> a] : n \in 0..MaxActions, a \in PlaybackActionSet }

RetryOnFailureValues == {-1, 0, 3}

\* Recording (recorder.py 140-204), the fields playback reads.
Recordings ==
    [actions : ActionSeqs, retry_on_failure : RetryOnFailureValues, url : BOOLEAN]

NoRecording == [actions |-> <<>>, retry_on_failure |-> 0, url |-> FALSE]

\* What is on the screen while one attempt runs: the content at the recorded
\* coordinates, and where pyautogui.locateOnScreen finds the reference image
\* (NotFound: no match, or the search raised).
Screens == [live : Images, found : {NotFound, RecordedPos, MovedPos}]

(***************************************************************************)
(* ScreenCapture (recorder.py 216-323).                                    *)
(***************************************************************************)
\* capture_region: the pixels are written to a file only when save is true.
CaptureRegion(screen, save) ==
    [present |-> TRUE,
     image_path |-> IF save THEN "region.png" ELSE None,
     image_hash |-> IF save THEN screen.live ELSE None,
     pixels |-> IF save THEN screen.live ELSE None]

\* cv2.matchTemplate(..., TM_CCOEFF_NORMED) in percent.
Similarity(a, b) == IF a = b THEN 100 ELSE 0

CompareRegions(region1, region2, threshold) ==
    IF region1.image_path = None \/ region2.image_path = None
    THEN FALSE
    ELSE Similarity(region1.pixels, region2.pixels) >= threshold

(***************************************************************************)
(* VisualVerifier (playback.py 91-161).                                    *)
(***************************************************************************)
RECURSIVE VerifyPoll(_, _, _)
VerifyPoll(elapsed, expected_region, screen) ==
    IF elapsed < VerifyTimeout
    THEN IF CompareRegions(expected_region, CaptureRegion(screen, FALSE), VerifyThreshold)
         THEN TRUE
         ELSE VerifyPoll(elapsed + VerifyPollSleep, expected_region, screen)
    ELSE FALSE

VerifyLocation(expected_region, screen) ==
    IF ~expected_region.present \/ expected_region.image_path = None
    THEN TRUE
    ELSE VerifyPoll(0, expected_region, screen)

FindOnScreen(expected_region, screen) ==
    IF expected_region.image_path = None THEN NotFound ELSE screen.found

(***************************************************************************)
(* PlaybackEngine._execute_action and the click handlers.                  *)
(***************************************************************************)
NoClick == [at |-> NotFound, checked |-> FALSE, verified |-> FALSE,
            searched |-> FALSE, live |-> None, found |-> NotFound, error |-> None]

\* The three click handlers share one body (playback.py 423-469).  The value
\* is what the attempt did: whether the region was checked, what
\* verify_location returned, whether find_on_screen ran, where the click went
\* (NotFound: no click), the error raised, and what the screen showed to the
\* verifier (live) and to the whole-screen search (found).
ExecuteClick_NoRetarget(action, verify, screen, nativeFails) ==
    LET check == verify /\ action.screen_region.present
        ok == VerifyLocation(action.screen_region, screen)
    IN  [at |-> IF nativeFails THEN NotFound ELSE action.x,
         checked |-> check, verified |-> check /\ ok, searched |-> check /\ ~ok,
         live |-> IF check THEN screen.live ELSE None,
         found |-> IF check /\ ~ok THEN screen.found ELSE NotFound,
         error |-> IF nativeFails THEN "native error" ELSE None]

ExecuteClick(action, verify, screen, nativeFails) ==
    LET check == verify /\ action.screen_region.present
        ok == VerifyLocation(action.screen_region, screen)
        new_location == IF check /\ ~ok
                        THEN FindOnScreen(action.screen_region, screen)
                        ELSE NotFound
        target == IF check /\ ~ok THEN new_location ELSE action.x
    IN  IF check /\ ~ok /\ new_location = NotFound
        THEN [at |-> NotFound, checked |-> TRUE, verified |-> FALSE, searched |-> TRUE,
              live |-> screen.live, found |-> screen.found,
              error |-> "Visual verification failed"]
        ELSE [at |-> IF nativeFails THEN NotFound ELSE target,
              checked |-> check, verified |-> check /\ ok, searched |-> check /\ ~ok,
              live |-> IF check THEN screen.live ELSE None,
              found |-> IF check /\ ~ok THEN screen.found ELSE NotFound,
              error |-> IF nativeFails THEN "native error" ELSE None]

ExecuteAction(action, verify, screen, nativeFails) ==
    IF action.action_type \in ClickTypes
    THEN ExecuteClick(action, verify, screen, nativeFails)
    ELSE [NoClick EXCEPT !.error = IF nativeFails THEN "native error" ELSE None]

(***************************************************************************)
(* PlaybackEngine._execute_action_with_retry (playback.py 329-388).        *)
(***************************************************************************)
Min(a, b) == IF a < b THEN a ELSE b

\* time.sleep(min(action.delay_before / speed_multiplier, 5.0)), speed 1.0
DelaySlept(action) == IF action.delay_before > 0 THEN Min(action.delay_before, DelayCap) ELSE 0

AttemptEvent(n, action) == [ev |-> "attempt", n |-> n, slept |-> DelaySlept(action)]
SleepEvent(n) == [ev |-> "sleep", n |-> n, slept |-> retry_delay]

NoResult == [success |-> FALSE, action_id |-> 0, error_message |-> None, retry_count |-> 0]

\* "if attempt < self.max_retries: time.sleep(self.retry_delay)"
SleepsAfter_Always(att) == TRUE

SleepsAfter(att) == att < max_retries

\* "for attempt in range(self.max_retries + 1)"
LastAttempt_OneFewer(att) == att + 1 >= max_retries

LastAttempt(att) == att + 1 >= max_retries + 1

(***************************************************************************)
(* PlaybackEngine.execute (playback.py 219-327).                           *)
(***************************************************************************)
NewReport(rec) ==
    [status |-> "running", completed_at |-> None, total_actions |-> Len(rec.actions),
     completed_actions |-> 0, failed_actions |-> 0, results |-> <<>>,
     error_message |-> None]

\* "if recording.retry_on_failure <= 0"
AbortsOnFailure_Never(rec) == FALSE

AbortsOnFailure(rec) == rec.retry_on_failure <= 0

\* lines 284-289: "report.results.append(result)" and the two counters
RecordResult_Uncounted(rep, res) == [rep EXCEPT !.results = Append(@, res)]

RecordResult(rep, res) ==
    IF res.success
    THEN [rep EXCEPT !.results = Append(@, res), !.completed_actions = @ + 1]
    ELSE [rep EXCEPT !.results = Append(@, res), !.failed_actions = @ + 1]

\* on_action_start and on_action_complete have not been called
NoneNotified == [started |-> 0, completed |-> 0]

\* "if report.status == PlaybackStatus.RUNNING: ... COMPLETED"
FinalStatus_Unset(rep) == rep.status

FinalStatus(rep) == IF rep.status = "running" THEN "completed" ELSE rep.status

PbInit ==
    /\ status = "idle"
    /\ abort_requested = FALSE
    /\ pause_event = TRUE
    /\ verify_visuals = TRUE
    /\ pc = "idle"
    /\ recording = NoRecording
    /\ idx = 0
    /\ attempt = 0
    /\ result = NoResult
    /\ exc = None
    /\ report = NewReport(NoRecording)
    /\ attemptLog = <<>>
    /\ lastClick = NoClick
    /\ execNotified = None
    /\ actionNotified = NoneNotified
    /\ gateAbort = 0

\* execute(), lines 236-256: the fields are reset, the report is created and
\* on_status_change(RUNNING) is called outside the try block.
ExecuteBegin(rec, vv, cbRaises) ==
    /\ pc = "idle"
    /\ recording' = rec
    /\ verify_visuals' = vv
    /\ abort_requested' = FALSE
    /\ idx' = 1
    /\ report' = NewReport(rec)
    /\ status' = "running"
    /\ execNotified' = "running"
    /\ actionNotified' = NoneNotified
    /\ pc' = IF cbRaises THEN "raised" ELSE "open_url"
    /\ attempt' = 0
    /\ result' = NoResult
    /\ exc' = None
    /\ attemptLog' = <<>>
    /\ lastClick' = NoClick
    /\ gateAbort' = 0
    /\ UNCHANGED <<pause_event, nonPbVars>>

\* lines 261-263
ExecuteOpenUrl(fails) ==
    /\ pc = "open_url"
    /\ IF recording.url /\ fails
       THEN /\ exc' = "url error"
            /\ pc' = "except"
       ELSE /\ pc' = "loop"
            /\ UNCHANGED exc
    /\ UNCHANGED <<status, abort_requested, pause_event, verify_visuals, recording, idx,
                   attempt, result, report, attemptLog, lastClick, execNotified,
                   actionNotified, gateAbort, nonPbVars>>

\* lines 266-271: next loop iteration and the abort check
ExecuteLoopCheck ==
    /\ pc = "loop"
    /\ IF idx > Len(recording.actions)
       THEN /\ pc' = "final"
            /\ UNCHANGED report
       ELSE IF abort_requested
            THEN /\ report' = [report EXCEPT !.status = "aborted",
                                             !.error_message = "Playback aborted by user"]
                 /\ pc' = "final"
            ELSE /\ pc' = "gate"
                 /\ UNCHANGED report
    /\ UNCHANGED <<status, abort_requested, pause_event, verify_visuals, recording, idx,
                   attempt, result, exc, attemptLog, lastClick, execNotified,
                   actionNotified, gateAbort, nonPbVars>>

\* line 274: self._pause_event.wait()
ExecutePauseGate ==
    /\ pc = "gate"
    /\ pause_event
    /\ pc' = "start"
    /\ UNCHANGED <<status, abort_requested, pause_event, verify_visuals, recording, idx,
                   attempt, result, exc, report, attemptLog, lastClick, execNotified,
                   actionNotified, gateAbort, nonPbVars>>

\* lines 276-283: on_action_start, then entry into _execute_action_with_retry
ExecuteActionStart(cbRaises) ==
    /\ pc = "start"
    /\ IF cbRaises
       THEN /\ exc' = "callback error"
            /\ pc' = "except"
       ELSE /\ pc' = "attempt"
            /\ UNCHANGED exc
    /\ actionNotified' = [actionNotified EXCEPT !.started = @ + 1]
    /\ attempt' = 0
    /\ attemptLog' = <<>>
    /\ lastClick' = NoClick
    /\ UNCHANGED <<status, abort_requested, pause_event, verify_visuals, recording, idx,
                   result, report, execNotified, gateAbort, nonPbVars>>

\* One iteration of the retry loop, lines 334-377, and the exit at 379-388.
ExecuteActionAttempt(screen, nativeFails) ==
    /\ pc = "attempt"
    /\ LET action == recording.actions[idx]
           out == ExecuteAction(action, verify_visuals, screen, nativeFails)
           tried == Append(attemptLog, AttemptEvent(attempt, action))
       IN  /\ lastClick' = out
           /\ IF out.error = None
              THEN /\ result' = [success |-> TRUE, action_id |-> idx,
                                 error_message |-> None, retry_count |-> attempt]
                   /\ attemptLog' = tried
                   /\ pc' = "record"
                   /\ UNCHANGED attempt
              ELSE /\ attemptLog' = IF SleepsAfter(attempt)
                                    THEN Append(tried, SleepEvent(attempt))
                                    ELSE tried
                   /\ IF LastAttempt(attempt)
                      THEN /\ result' = [success |-> FALSE, action_id |-> idx,
                                         error_message |-> out.error,
                                         retry_count |-> max_retries]
                           /\ pc' = "record"
                           /\ UNCHANGED attempt
                      ELSE /\ attempt' = attempt + 1
                           /\ UNCHANGED <<result, pc>>
    /\ UNCHANGED <<status, abort_requested, pause_event, verify_visuals, recording, idx,
                   exc, report, execNotified, actionNotified,
                   gateAbort, nonPbVars>>

\* lines 284-303: the result is appended and counted, a failure may stop the
\* run, and on_action_complete is called.
ExecuteRecordResult(cbRaises) ==
    /\ pc = "record"
    /\ LET recorded == RecordResult(report, result)
       IN  IF ~result.success /\ AbortsOnFailure(recording)
           THEN /\ report' = [recorded EXCEPT !.status = "failed",
                                              !.error_message = "Action failed"]
                /\ pc' = "final"
                /\ UNCHANGED <<idx, exc, actionNotified>>
           ELSE /\ report' = recorded
                /\ actionNotified' = [actionNotified EXCEPT !.completed = @ + 1]
                /\ IF cbRaises
                   THEN /\ exc' = "callback error"
                        /\ pc' = "except"
                        /\ UNCHANGED idx
                   ELSE /\ idx' = idx + 1
                        /\ pc' = "loop"
                        /\ UNCHANGED exc
    /\ attempt' = 0
    /\ result' = NoResult
    /\ attemptLog' = <<>>
    /\ lastClick' = NoClick
    /\ UNCHANGED <<status, abort_requested, pause_event, verify_visuals, recording,
                   execNotified, gateAbort, nonPbVars>>

\* lines 305-310
ExecuteFinalStatus ==
    /\ pc = "final"
    /\ report' = [report EXCEPT !.status = FinalStatus(report)]
    /\ pc' = "finally"
    /\ UNCHANGED <<status, abort_requested, pause_event, verify_visuals, recording, idx,
                   attempt, result, exc, attemptLog, lastClick, execNotified,
                   actionNotified, gateAbort, nonPbVars>>

\* lines 312-315
ExecuteExcept ==
    /\ pc = "except"
    /\ report' = [report EXCEPT !.status = "failed", !.error_message = exc]
    /\ pc' = "finally"
    /\ UNCHANGED <<status, abort_requested, pause_event, verify_visuals, recording, idx,
                   attempt, result, exc, attemptLog, lastClick, execNotified,
                   actionNotified, gateAbort, nonPbVars>>

\* lines 317-327: completed_at, _set_status(report.status), return
ExecuteFinally(cbRaises) ==
    /\ pc = "finally"
    /\ report' = [report EXCEPT !.completed_at = "time"]
    /\ status' = report.status
    /\ execNotified' = report.status
    /\ pc' = IF cbRaises THEN "raised" ELSE "returned"
    /\ UNCHANGED <<abort_requested, pause_event, verify_visuals, recording, idx,
                   attempt, result, exc, attemptLog, lastClick, actionNotified, gateAbort,
                   nonPbVars>>

\* execute() has returned its report, or raised, to the caller: the engine is
\* free for the next execute() and keeps no reference to the report.
ExecuteLeave ==
    /\ pc \in {"returned", "raised"}
    /\ pc' = "idle"
    /\ recording' = NoRecording
    /\ idx' = 0
    /\ attempt' = 0
    /\ result' = NoResult
    /\ exc' = None
    /\ report' = NewReport(NoRecording)
    /\ attemptLog' = <<>>
    /\ lastClick' = NoClick
    /\ execNotified' = None
    /\ actionNotified' = NoneNotified
    /\ gateAbort' = 0
    /\ UNCHANGED <<status, abort_requested, pause_event, verify_visuals, nonPbVars>>

\* pause(), lines 595-599
Pause ==
    /\ pause_event' = FALSE
    /\ status' = "paused"
    /\ UNCHANGED <<abort_requested, verify_visuals, pc, recording, idx, attempt, result,
                   exc, report, attemptLog, lastClick, execNotified, actionNotified,
                   gateAbort, nonPbVars>>

\* resume(), lines 601-605
Resume ==
    /\ pause_event' = TRUE
    /\ status' = "running"
    /\ UNCHANGED <<abort_requested, verify_visuals, pc, recording, idx, attempt, result,
                   exc, report, attemptLog, lastClick, execNotified, actionNotified,
                   gateAbort, nonPbVars>>

\* abort(), lines 607-611
Abort ==
    /\ abort_requested' = TRUE
    /\ pause_event' = TRUE
    /\ gateAbort' = IF pc = "gate" /\ ~pause_event THEN idx ELSE gateAbort
    /\ UNCHANGED <<status, verify_visuals, pc, recording, idx, attempt, result,
                   exc, report, attemptLog, lastClick, execNotified, actionNotified,
                   nonPbVars>>

(***************************************************************************)
(* ActionRecorder (recorder.py 326-881).  Every callback runs to           *)
(* completion; the callbacks are pure operators on the recorder's fields.  *)
(***************************************************************************)
NoCredential == <<>>
Credentials == { <<"Portal", "password">>, <<"Portal", "username">> }

\* "if key_name in ['enter', 'return', 'tab', 'escape']"
FlushKeys == {"enter", "return", "tab", "escape"}

\* The inputs the environment delivers to the callbacks.
TextKeys == {"a"}
Keys == TextKeys \cup {"enter", "backspace", "shift"}
Buttons == {"left", "right"}
ManualTypes == {"wait"}
ScrollDeltas == {-1}
Positions == {0, 1}
TimedKeys == TextKeys \cup {"enter"}

Pow10(k) == CASE k = 0 -> 1 [] k = 1 -> 10 [] k = 2 -> 100 [] k = 3 -> 1000 [] OTHER -> 10000

\* f"action_{n:05d}": the prefix and the five decimal digits of the counter
ActionId(n) == [i \in 1..5 |-> (n \div Pow10(5 - i)) % 10]

\* RecordedAction (recorder.py 61-99), the fields the recorder fills in.
RecordedAction(id, t, text, cred, key, dy) ==
    [id |-> id, action_type |-> t, text |-> text, credential |-> cred,
     key |-> key, dy |-> dy, x |-> 0]

\* A buffered character, with whether sensitive mode was armed when it was typed.
Typed(ch, armed) == [ch |-> ch, armed |-> armed]

RecState ==
    [is_recording |-> is_recording, paused |-> paused, actions |-> actions,
     action_counter |-> action_counter, text_buffer |-> text_buffer,
     sensitive_mode |-> sensitive_mode, current_credential |-> current_credential,
     scroll_pending |-> scroll_pending, scroll_buffer_y |-> scroll_buffer_y,
     scroll_timer |-> scroll_timer, scroll_last_x |-> scroll_last_x,
     submitted |-> <<>>]

SetRec(r) ==
    /\ is_recording' = r.is_recording
    /\ paused' = r.paused
    /\ actions' = r.actions
    /\ action_counter' = r.action_counter
    /\ text_buffer' = r.text_buffer
    /\ sensitive_mode' = r.sensitive_mode
    /\ current_credential' = r.current_credential
    /\ scroll_pending' = r.scroll_pending
    /\ scroll_buffer_y' = r.scroll_buffer_y
    /\ scroll_timer' = r.scroll_timer
    /\ scroll_last_x' = r.scroll_last_x
    /\ submitted' = r.submitted

\* _generate_action_id, lines 384-387
GenerateActionId(r) == [r EXCEPT !.action_counter = @ + 1]

\* _record_action, lines 437-448
RecordAction(r, action) ==
    LET s == [r EXCEPT !.submitted = Append(@, action)]
    IN  IF ~r.is_recording \/ r.paused
        THEN s
        ELSE [s EXCEPT !.actions = Append(@, action)]

\* _flush_text_buffer, lines 450-481
FlushTextBuffer_IgnoresSensitive(r) ==
    IF r.text_buffer = <<>>
    THEN r
    ELSE LET g == GenerateActionId(r)
             a == RecordedAction(ActionId(g.action_counter), "key_type",
                                 r.text_buffer, NoCredential, None, 0)
         IN  [RecordAction(g, a) EXCEPT !.text_buffer = <<>>]

FlushTextBuffer(r) ==
    IF r.text_buffer = <<>>
    THEN r
    ELSE IF r.sensitive_mode /\ r.current_credential # NoCredential
         THEN LET g == GenerateActionId(r)
                  a == RecordedAction(ActionId(g.action_counter), "credential_input",
                                      <<>>, r.current_credential, None, 0)
                  c == [g EXCEPT !.sensitive_mode = FALSE,
                                 !.current_credential = NoCredential]
              IN  [RecordAction(c, a) EXCEPT !.text_buffer = <<>>]
         ELSE LET g == GenerateActionId(r)
                  a == RecordedAction(ActionId(g.action_counter), "key_type",
                                      r.text_buffer, NoCredential, None, 0)
              IN  [RecordAction(g, a) EXCEPT !.text_buffer = <<>>]

\* start_recording, lines 483-517
StartRecording(r) ==
    IF r.is_recording
    THEN r
    ELSE [r EXCEPT !.is_recording = TRUE, !.paused = FALSE, !.actions = <<>>]

\* pause_recording, lines 519-523
PauseRecording(r) == FlushTextBuffer([r EXCEPT !.paused = TRUE])

\* resume_recording, lines 525-529
ResumeRecording(r) == [r EXCEPT !.paused = FALSE]

\* _flush_scroll_buffer, lines 677-705
FlushScrollBuffer(r) ==
    IF ~r.scroll_pending
    THEN r
    ELSE LET t == FlushTextBuffer(r)
             g == GenerateActionId(t)
             a == [RecordedAction(ActionId(g.action_counter), "mouse_scroll",
                                  <<>>, NoCredential, None, r.scroll_buffer_y)
                     EXCEPT !.x = r.scroll_last_x]
         IN  [RecordAction(g, a) EXCEPT !.scroll_pending = FALSE,
                                        !.scroll_buffer_y = 0,
                                        !.scroll_timer = FALSE]

\* stop_recording, lines 531-546
StopRecording(r) ==
    LET t == FlushTextBuffer(r)
        c == [t EXCEPT !.scroll_timer = FALSE]
        s == FlushScrollBuffer(c)
    IN  [s EXCEPT !.is_recording = FALSE]

\* mark_sensitive_input, lines 548-558
MarkSensitiveInput(r, cred) ==
    [FlushTextBuffer(r) EXCEPT !.sensitive_mode = TRUE, !.current_credential = cred]

\* end_sensitive_input, lines 560-565
EndSensitiveInput(r) ==
    [FlushTextBuffer(r) EXCEPT !.sensitive_mode = FALSE,
                               !.current_credential = NoCredential]

\* add_screenshot_action, add_wait_action, add_url_action, lines 567-603
AddManualAction(r, t) ==
    LET g == GenerateActionId(r)
    IN  RecordAction(g, RecordedAction(ActionId(g.action_counter), t,
                                       <<>>, NoCredential, None, 0))

\* _on_mouse_click (a press outside the exclude rectangle), lines 607-650
OnMouseClick(r, button) ==
    LET t == FlushTextBuffer(r)
        g == GenerateActionId(t)
        at == IF button = "right" THEN "mouse_right_click" ELSE "mouse_click"
    IN  RecordAction(g, RecordedAction(ActionId(g.action_counter), at,
                                       <<>>, NoCredential, None, 0))

\* _on_mouse_scroll, lines 652-675
OnMouseScroll_Overwrites(r, x, dy) ==
    IF ~r.is_recording \/ r.paused
    THEN r
    ELSE [r EXCEPT !.scroll_pending = TRUE,
                   !.scroll_buffer_y = dy,
                   !.scroll_last_x = x,
                   !.scroll_timer = TRUE]

OnMouseScroll(r, x, dy) ==
    IF ~r.is_recording \/ r.paused
    THEN r
    ELSE [r EXCEPT !.scroll_pending = TRUE,
                   !.scroll_buffer_y = (IF r.scroll_pending THEN @ ELSE 0) + dy,
                   !.scroll_last_x = x,
                   !.scroll_timer = TRUE]

\* _on_key_press, lines 707-758
OnKeyPress(r, key) ==
    IF key \in TextKeys
    THEN [r EXCEPT !.text_buffer = Append(@, Typed(key, r.sensitive_mode))]
    ELSE IF key \in FlushKeys
    THEN LET t == FlushTextBuffer(r)
             g == GenerateActionId(t)
         IN  RecordAction(g, RecordedAction(ActionId(g.action_counter), "key_press",
                                            <<>>, NoCredential, key, 0))
    ELSE IF key = "backspace"
    THEN IF r.text_buffer # <<>>
         THEN [r EXCEPT !.text_buffer = SubSeq(@, 1, Len(@) - 1)]
         ELSE LET g == GenerateActionId(r)
              IN  RecordAction(g, RecordedAction(ActionId(g.action_counter), "key_press",
                                                 <<>>, NoCredential, key, 0))
    ELSE IF key = "space"
    THEN [r EXCEPT !.text_buffer = Append(@, Typed(" ", r.sensitive_mode))]
    ELSE r

RecInit ==
    /\ is_recording = FALSE
    /\ paused = FALSE
    /\ actions = <<>>
    /\ action_counter = 0
    /\ text_buffer = <<>>
    /\ sensitive_mode = FALSE
    /\ current_credential = NoCredential
    /\ scroll_pending = FALSE
    /\ scroll_buffer_y = 0
    /\ scroll_timer = FALSE
    /\ scroll_last_x = 0
    /\ submitted = <<>>

\* The calls of the GUI thread.
StartRecordingCall ==
    /\ SetRec(StartRecording(RecState))
    /\ UNCHANGED nonRecVars

StopRecordingCall ==
    /\ is_recording
    /\ action_counter < MaxCounter
    /\ SetRec(StopRecording(RecState))
    /\ UNCHANGED nonRecVars

PauseRecordingCall ==
    /\ is_recording
    /\ action_counter < MaxCounter
    /\ SetRec(PauseRecording(RecState))
    /\ UNCHANGED nonRecVars

ResumeRecordingCall ==
    /\ is_recording
    /\ SetRec(ResumeRecording(RecState))
    /\ UNCHANGED nonRecVars

MarkSensitiveInputCall(cred) ==
    /\ is_recording
    /\ action_counter < MaxCounter
    /\ SetRec(MarkSensitiveInput(RecState, cred))
    /\ UNCHANGED nonRecVars

EndSensitiveInputCall ==
    /\ is_recording
    /\ action_counter < MaxCounter
    /\ SetRec(EndSensitiveInput(RecState))
    /\ UNCHANGED nonRecVars

AddManualActionCall(t) ==
    /\ is_recording
    /\ action_counter < MaxCounter
    /\ SetRec(AddManualAction(RecState, t))
    /\ UNCHANGED nonRecVars

\* The listener threads, installed from start_recording to stop_recording.
MouseClickEvent(button) ==
    /\ is_recording
    /\ action_counter < MaxCounter
    /\ SetRec(OnMouseClick(RecState, button))
    /\ UNCHANGED nonRecVars

KeyPressEvent(key) ==
    /\ is_recording
    /\ action_counter < MaxCounter
    /\ key \in TextKeys \cup {"space"} => Len(text_buffer) < MaxText
    /\ SetRec(OnKeyPress(RecState, key))
    /\ UNCHANGED nonRecVars

MouseScrollEvent(x, dy) ==
    /\ is_recording
    /\ scroll_buffer_y + dy \in -MaxScroll..MaxScroll
    /\ SetRec(OnMouseScroll(RecState, x, dy))
    /\ UNCHANGED nonRecVars

\* The threading.Timer armed by _on_mouse_scroll fires.
ScrollTimerFires ==
    /\ scroll_timer
    /\ action_counter < MaxCounter
    /\ SetRec([FlushScrollBuffer(RecState) EXCEPT !.scroll_timer = FALSE])
    /\ UNCHANGED nonRecVars

(***************************************************************************)
(* AutomationScheduler (scheduler.py 278-607).  Times are in minutes.      *)
(* APScheduler is modelled by what the scheduler asks of it: a persistent  *)
(* job store keyed by schedule id, one trigger and one next_run_time per   *)
(* job, max_instances = 1 per job, and a job fires when its time has come. *)
(***************************************************************************)
SchedIds == {"s1"}
Threads == {"pool", "gui"}
Frequencies == {"once", "hourly", "daily", "weekly", "monthly", "custom"}
CronExprs == {"0 9 * * *"}
TimeSteps == {30}
NoTime == -1

\* What loading and playing the recording comes to (scheduler.py 510-531).
RaisingOutcomes == {"missing", "exec_error"}
ExecOutcomes == RaisingOutcomes \cup {"completed", "failed"}

\* Schedule (scheduler.py 69-94), the fields the scheduler reads and writes.
NoSchedule ==
    [exists |-> FALSE, frequency |-> "once", cron_expression |-> None,
     has_recipients |-> FALSE, is_active |-> FALSE, created_at |-> NoTime,
     last_run |-> NoTime, next_run |-> NoTime,
     run_count |-> 0, success_count |-> 0, failure_count |-> 0]

NewSchedule(freq, cron, recipients, t) ==
    [NoSchedule EXCEPT !.exists = TRUE, !.frequency = freq, !.cron_expression = cron,
                       !.has_recipients = recipients, !.is_active = TRUE,
                       !.created_at = t]

\* Schedule.to_dict / Schedule.from_dict (scheduler.py 96-124): every field
\* is written and read back; an unset last_run / next_run stays unset.
ToDict(s) ==
    [exists |-> s.exists, frequency |-> s.frequency,
     cron_expression |-> s.cron_expression, has_recipients |-> s.has_recipients,
     is_active |-> s.is_active, created_at |-> s.created_at,
     last_run |-> s.last_run, next_run |-> s.next_run,
     run_count |-> s.run_count, success_count |-> s.success_count,
     failure_count |-> s.failure_count]

FromDict(d) ==
    [exists |-> d.exists, frequency |-> d.frequency,
     cron_expression |-> d.cron_expression, has_recipients |-> d.has_recipients,
     is_active |-> d.is_active, created_at |-> d.created_at,
     last_run |-> IF d.last_run # NoTime THEN d.last_run ELSE NoTime,
     next_run |-> IF d.next_run # NoTime THEN d.next_run ELSE NoTime,
     run_count |-> d.run_count, success_count |-> d.success_count,
     failure_count |-> d.failure_count]

\* _save_schedules / _load_schedules (scheduler.py 321-340)
SaveSchedules(scheds) == [id \in SchedIds |-> ToDict(scheds[id])]
LoadSchedules(file) == [id \in SchedIds |-> FromDict(file[id])]

\* Triggers.  "at" is the moment the trigger was created.
NoTrigger == [kind |-> "none", at |-> NoTime, run_date |-> NoTime,
              interval |-> 0, cron |-> None]
DateTrigger(run_date, t) == [NoTrigger EXCEPT !.kind = "date", !.at = t, !.run_date = run_date]
IntervalTrigger(minutes, t) == [NoTrigger EXCEPT !.kind = "interval", !.at = t, !.interval = minutes]
CronTrigger(expr, t) == [NoTrigger EXCEPT !.kind = "cron", !.at = t, !.cron = expr]

\* _create_trigger, lines 490-504
CreateTrigger_CalendarMonth(schedule, t) ==
    CASE schedule.frequency = "once" -> DateTrigger(t + OnceDelay, t)
      [] schedule.frequency = "hourly" -> IntervalTrigger(HourMinutes, t)
      [] schedule.frequency = "daily" -> IntervalTrigger(DayMinutes, t)
      [] schedule.frequency = "weekly" -> IntervalTrigger(WeekMinutes, t)
      [] schedule.frequency = "monthly" -> IntervalTrigger(31 * DayMinutes, t)
      [] OTHER -> CronTrigger(schedule.cron_expression, t)

CreateTrigger(schedule, t) ==
    CASE schedule.frequency = "once" -> DateTrigger(t + OnceDelay, t)
      [] schedule.frequency = "hourly" -> IntervalTrigger(HourMinutes, t)
      [] schedule.frequency = "daily" -> IntervalTrigger(DayMinutes, t)
      [] schedule.frequency = "weekly" -> IntervalTrigger(WeekMinutes, t)
      [] schedule.frequency = "monthly" -> IntervalTrigger(MonthDays * DayMinutes, t)
      [] OTHER -> CronTrigger(schedule.cron_expression, t)

\* CronTrigger.from_crontab: minute and hour of a "m h * * *" expression.
ParseCron(expr) ==
    CASE expr = "0 9 * * *" -> [minute |-> 0, hour |-> 9]
      [] OTHER -> [minute |-> 0, hour |-> 0]

\* The first time after t at which the expression matches.
NextCron(expr, t) ==
    LET c == ParseCron(expr)
        m == c.hour * HourMinutes + c.minute
        d == t % DayMinutes
    IN  IF d < m THEN t - d + m ELSE t - d + DayMinutes + m

\* next_run_time of a job whose trigger last fired at prev (NoTime: never).
NextFireTime(trigger, prev) ==
    CASE trigger.kind = "date" -> IF prev = NoTime THEN trigger.run_date ELSE NoTime
      [] trigger.kind = "interval" ->
            IF prev = NoTime THEN trigger.at + trigger.interval ELSE prev + trigger.interval
      [] trigger.kind = "cron" -> NextCron(trigger.cron, IF prev = NoTime THEN trigger.at ELSE prev)
      [] OTHER -> NoTime

NoJob == [exists |-> FALSE, trigger |-> NoTrigger, next_run_time |-> NoTime]

\* _add_job, lines 463-481: add_job(..., replace_existing=True), then
\* schedule.next_run = job.next_run_time.
NewJob(schedule, t) ==
    LET trigger == CreateTrigger(schedule, t)
    IN  [exists |-> TRUE, trigger |-> trigger, next_run_time |-> NextFireTime(trigger, NoTime)]

\* One call of _execute_schedule: where it is, what it has done so far.
IdleExec ==
    [pc |-> "idle", id |-> "s1", outcome |-> None, error |-> None, status |-> None,
     d_run |-> 0, d_succ |-> 0, d_fail |-> 0, saved |-> FALSE, mailed |-> FALSE]

StartExec(id) == [IdleExec EXCEPT !.pc = "load", !.id = id]

ErrorText(outcome) ==
    CASE outcome = "missing" -> "Recording not found"
      [] outcome = "exec_error" -> "execute failed"
      [] OTHER -> outcome

\* lines 536-546: the statistics after engine.execute returned
TryStats(s, report_status, job, t) ==
    [s EXCEPT !.last_run = t,
              !.run_count = @ + 1,
              !.success_count = IF report_status = "completed" THEN @ + 1 ELSE @,
              !.failure_count = IF report_status = "completed" THEN @ ELSE @ + 1,
              !.next_run = IF job.exists THEN job.next_run_time ELSE @]

\* lines 581-584: the statistics of the except path
ExceptStats_NoCount(s, t) == [s EXCEPT !.last_run = t]

ExceptStats(s, t) ==
    [s EXCEPT !.last_run = t, !.run_count = @ + 1, !.failure_count = @ + 1]

\* What a call has added to the counters of its schedule so far.
Counted(e, before, after) ==
    [e EXCEPT !.d_run = @ + after.run_count - before.run_count,
              !.d_succ = @ + after.success_count - before.success_count,
              !.d_fail = @ + after.failure_count - before.failure_count]

SchedInit ==
    /\ now = 0
    /\ time_steps = 0
    /\ sched_started = FALSE
    /\ notifier = FALSE
    /\ schedules = [id \in SchedIds |-> NoSchedule]
    /\ schedules_file = [id \in SchedIds |-> NoSchedule]
    /\ jobs = [id \in SchedIds |-> NoJob]
    /\ execs = [t \in Threads |-> IdleExec]
    /\ fired = [id \in SchedIds |-> 0]
    /\ last_fired = [id \in SchedIds |-> NoTime]
    /\ runs_started = 0

AllIdle == \A t \in Threads : execs[t].pc = "idle"

\* The process starts: AutomationScheduler(...) loads schedules.json
\* (lines 296-319), start() re-adds every active schedule (lines 342-351).
Startup(withEmail) ==
    /\ ~sched_started
    /\ LET loaded == LoadSchedules(schedules_file)
           readd == [id \in SchedIds |->
                        IF loaded[id].exists /\ loaded[id].is_active
                        THEN NewJob(loaded[id], now) ELSE jobs[id]]
           scheds == [id \in SchedIds |->
                        IF loaded[id].exists /\ loaded[id].is_active
                        THEN [loaded[id] EXCEPT !.next_run = readd[id].next_run_time]
                        ELSE loaded[id]]
       IN  /\ jobs' = readd
           /\ schedules' = scheds
           /\ schedules_file' = IF \E id \in SchedIds : loaded[id].exists /\ loaded[id].is_active
                                THEN SaveSchedules(scheds) ELSE schedules_file
    /\ sched_started' = TRUE
    /\ notifier' = withEmail
    /\ UNCHANGED <<now, time_steps, execs, fired, last_fired, runs_started, nonSchedVars>>

\* stop() and the end of the process, lines 353-356
Shutdown ==
    /\ sched_started
    /\ AllIdle
    /\ sched_started' = FALSE
    /\ UNCHANGED <<now, time_steps, notifier, schedules, schedules_file, jobs, execs,
                   fired, last_fired, runs_started, nonSchedVars>>

GuiFree == sched_started /\ execs["gui"].pc = "idle"

\* create_schedule, lines 358-393
CreateSchedule(id, freq, recipients) ==
    /\ GuiFree
    /\ ~schedules[id].exists
    /\ LET cron == IF freq = "custom" THEN CHOOSE e \in CronExprs : TRUE ELSE None
           s == NewSchedule(freq, cron, recipients, now)
           job == NewJob(s, now)
           scheds == [schedules EXCEPT ![id] = [s EXCEPT !.next_run = job.next_run_time]]
       IN  /\ schedules' = scheds
           /\ jobs' = [jobs EXCEPT ![id] = job]
           /\ schedules_file' = SaveSchedules(scheds)
    /\ fired' = [fired EXCEPT ![id] = 0]
    /\ last_fired' = [last_fired EXCEPT ![id] = NoTime]
    /\ UNCHANGED <<now, time_steps, sched_started, notifier, execs, runs_started,
                   nonSchedVars>>

\* update_schedule with fields the model does not hold, lines 395-414
UpdateSchedule(id) ==
    /\ GuiFree
    /\ schedules[id].exists
    /\ LET s == schedules[id]
           job == IF s.is_active THEN NewJob(s, now) ELSE NoJob
           scheds == [schedules EXCEPT ![id] =
                         IF s.is_active THEN [s EXCEPT !.next_run = job.next_run_time] ELSE s]
       IN  /\ schedules' = scheds
           /\ jobs' = [jobs EXCEPT ![id] = job]
           /\ schedules_file' = SaveSchedules(scheds)
    /\ UNCHANGED <<now, time_steps, sched_started, notifier, execs, fired, last_fired,
                   runs_started, nonSchedVars>>

\* set_active, lines 438-453
SetActive(id, active) ==
    /\ GuiFree
    /\ schedules[id].exists
    /\ LET s == [schedules[id] EXCEPT !.is_active = active]
           job == IF active THEN NewJob(s, now) ELSE NoJob
           scheds == [schedules EXCEPT ![id] =
                         IF active THEN [s EXCEPT !.next_run = job.next_run_time] ELSE s]
       IN  /\ schedules' = scheds
           /\ jobs' = [jobs EXCEPT ![id] = job]
           /\ schedules_file' = SaveSchedules(scheds)
    /\ UNCHANGED <<now, time_steps, sched_started, notifier, execs, fired, last_fired,
                   runs_started, nonSchedVars>>

\* run_now on the caller's thread, lines 455-461
RunNow(id) ==
    /\ GuiFree
    /\ schedules[id].exists
    /\ runs_started < MaxRuns
    /\ execs' = [execs EXCEPT !["gui"] = StartExec(id)]
    /\ runs_started' = runs_started + 1
    /\ UNCHANGED <<now, time_steps, sched_started, notifier, schedules, schedules_file,
                   jobs, fired, last_fired, nonSchedVars>>

\* The job of a schedule is due: the pool runs _execute_schedule unless an
\* instance of the job is still running (max_instances = 1, lines 311-319);
\* the job gets its next run time, a date job that has fired is removed.
FireJob(id) ==
    /\ sched_started
    /\ jobs[id].exists
    /\ jobs[id].next_run_time = now
    /\ LET next == NextFireTime(jobs[id].trigger, now)
       IN  jobs' = [jobs EXCEPT ![id] =
                       IF next = NoTime THEN NoJob ELSE [@ EXCEPT !.next_run_time = next]]
    /\ IF execs["pool"].pc = "idle"
       THEN /\ execs' = [execs EXCEPT !["pool"] = StartExec(id)]
            /\ fired' = [fired EXCEPT ![id] = @ + 1]
            /\ last_fired' = [last_fired EXCEPT ![id] = now]
       ELSE UNCHANGED <<execs, fired, last_fired>>
    /\ UNCHANGED <<now, time_steps, sched_started, notifier, schedules, schedules_file,
                   runs_started, nonSchedVars>>

JobDue(t) == sched_started /\ \E id \in SchedIds : jobs[id].exists /\ jobs[id].next_run_time < t

\* Time passes, but not past a due job of a running scheduler.
TimePasses(dt) ==
    /\ time_steps < MaxTimeSteps
    /\ ~JobDue(now + dt)
    /\ now' = now + dt
    /\ time_steps' = time_steps + 1
    /\ UNCHANGED <<sched_started, notifier, schedules, schedules_file, jobs, execs,
                   fired, last_fired, runs_started, nonSchedVars>>

\* Time passes until the job of a schedule is due.
WaitForJob(id) ==
    /\ time_steps < MaxTimeSteps
    /\ sched_started
    /\ jobs[id].exists
    /\ jobs[id].next_run_time > now
    /\ now' = jobs[id].next_run_time
    /\ time_steps' = time_steps + 1
    /\ UNCHANGED <<sched_started, notifier, schedules, schedules_file, jobs, execs,
                   fired, last_fired, runs_started, nonSchedVars>>

SchedUnchangedByExec == <<now, time_steps, sched_started, notifier, jobs, fired, last_fired,
                          runs_started, nonSchedVars>>

\* _execute_schedule, lines 510-546: load the recording, play it, count.
ExecPlay(t, outcome) ==
    /\ execs[t].pc = "load"
    /\ LET e == execs[t]
           id == e.id
       IN  IF outcome \in RaisingOutcomes
           THEN /\ execs' = [execs EXCEPT ![t] = [e EXCEPT !.pc = "except",
                                                           !.outcome = outcome,
                                                           !.error = ErrorText(outcome)]]
                /\ UNCHANGED schedules
           ELSE LET s == schedules[id]
                    u == TryStats(s, outcome, jobs[id], now)
                IN  /\ schedules' = [schedules EXCEPT ![id] = u]
                    /\ execs' = [execs EXCEPT ![t] = Counted([e EXCEPT !.pc = "save",
                                                                       !.outcome = outcome,
                                                                       !.status = outcome],
                                                             s, u)]
    /\ UNCHANGED <<schedules_file, SchedUnchangedByExec>>

\* line 548: self._save_schedules()
ExecSave(t, fails) ==
    /\ execs[t].pc = "save"
    /\ IF fails
       THEN /\ execs' = [execs EXCEPT ![t] = [@ EXCEPT !.pc = "except", !.error = "save failed"]]
            /\ UNCHANGED schedules_file
       ELSE /\ execs' = [execs EXCEPT ![t] = [@ EXCEPT !.pc = "notify", !.saved = TRUE]]
            /\ schedules_file' = SaveSchedules(schedules)
    /\ UNCHANGED <<schedules, SchedUnchangedByExec>>

\* lines 550-556: send_report catches its own errors
ExecNotify(t) ==
    /\ execs[t].pc = "notify"
    /\ execs' = [execs EXCEPT ![t] =
                    [@ EXCEPT !.pc = "callback",
                              !.mailed = notifier /\ schedules[execs[t].id].has_recipients]]
    /\ UNCHANGED <<schedules, schedules_file, SchedUnchangedByExec>>

\* lines 558-563: on_run_complete, engine.close(), return report
ExecCallback(t, raises) ==
    /\ execs[t].pc = "callback"
    /\ execs' = [execs EXCEPT ![t] =
                    IF raises
                    THEN [@ EXCEPT !.pc = "except", !.error = "callback failed"]
                    ELSE [@ EXCEPT !.pc = "done"]]
    /\ UNCHANGED <<schedules, schedules_file, SchedUnchangedByExec>>

\* lines 565-584: the synthetic failed report and the statistics
ExecExcept(t) ==
    /\ execs[t].pc = "except"
    /\ LET s == schedules[execs[t].id]
           u == ExceptStats(s, now)
       IN  /\ schedules' = [schedules EXCEPT ![execs[t].id] = u]
           /\ execs' = [execs EXCEPT ![t] =
                           Counted([@ EXCEPT !.pc = "except_save", !.status = "failed"], s, u)]
    /\ UNCHANGED <<schedules_file, SchedUnchangedByExec>>

\* line 585: self._save_schedules() in the except path
ExecExceptSave(t, fails) ==
    /\ execs[t].pc = "except_save"
    /\ IF fails
       THEN /\ execs' = [execs EXCEPT ![t] = [@ EXCEPT !.pc = "raised"]]
            /\ UNCHANGED schedules_file
       ELSE /\ execs' = [execs EXCEPT ![t] = [@ EXCEPT !.pc = "except_notify", !.saved = TRUE]]
            /\ schedules_file' = SaveSchedules(schedules)
    /\ UNCHANGED <<schedules, SchedUnchangedByExec>>

\* lines 587-594: the error notification, return report
ExecExceptNotify(t) ==
    /\ execs[t].pc = "except_notify"
    /\ execs' = [execs EXCEPT ![t] =
                    [@ EXCEPT !.pc = "done",
                              !.mailed = notifier /\ schedules[execs[t].id].has_recipients]]
    /\ UNCHANGED <<schedules, schedules_file, SchedUnchangedByExec>>

\* The caller has the report (or the exception).
ExecLeave(t) ==
    /\ execs[t].pc \in {"done", "raised"}
    /\ execs' = [execs EXCEPT ![t] = IdleExec]
    /\ UNCHANGED <<schedules, schedules_file, SchedUnchangedByExec>>

(***************************************************************************)
(* The Credential Manager (src/credentials.py).                            *)
(***************************************************************************)
CredNames == {"portal", "mail"}
Passwords == {"P1", "P2"}
ManagerIds == {"src", "dst"}

\* Credential (credentials.py 27-34)
CredentialValues ==
    [name : CredNames, username : {"alice"}, password_ : {"pw1", "pw2"},
     url : {None, "https://portal"}, notes : {None, "a note"}]

VaultCredentials == {c \in CredentialValues : c.url = None /\ c.notes = None}
MasterPasswords == {"M", "M2"}

\* Credential.to_dict / Credential.from_dict (credentials.py 40-57)
CredentialToDict(c) ==
    [name |-> c.name, username |-> c.username, password |-> c.password_,
     url |-> c.url, notes |-> c.notes]

CredentialFromDict(d) ==
    [name |-> d.name, username |-> d.username, password_ |-> d.password,
     url |-> d.url, notes |-> d.notes]

\* json.dumps / json.loads: the text of a value, and the value of a text
JsonDumps(value) == [json |-> value]
JsonLoads(text) == text.json

\* A dict: a function on the keys it holds.
EmptyDict == [k \in {} |-> None]
Put(dict, key, value) ==
    [k \in DOMAIN dict \cup {key} |-> IF k = key THEN value ELSE dict[k]]

\* EncryptionManager (credentials.py 64-96): the Fernet key is derived from
\* the password and the salt; a token decrypts under the key that made it
\* and under no other.
NoEncryption == [set |-> FALSE, password |-> None, salt |-> None]
EncryptionManager(password, salt) == [set |-> TRUE, password |-> password, salt |-> salt]
\* A Fernet token is authenticated: one that was altered decrypts under no key.
Encrypt(encryption, text) ==
    [exists |-> TRUE, key |-> encryption, text |-> text, intact |-> TRUE]
CanDecrypt_Unauthenticated(encryption, token) == token.key = encryption
CanDecrypt(encryption, token) == token.key = encryption /\ token.intact
Decrypt(encryption, token) == token.text
EncryptDict(encryption, dict) == Encrypt(encryption, JsonDumps(dict))
DecryptDict(encryption, token) == JsonLoads(Decrypt(encryption, token))

NoFile ==
    [exists |-> FALSE, key |-> NoEncryption, text |-> JsonDumps(EmptyDict), intact |-> TRUE]

\* Where a manager runs: whether keyring.get_keyring() answers (line 127),
\* whether the backend then accepts calls or raises KeyringError, and the
\* master password the manager is constructed with.
Environments ==
    { [use_keyring |-> TRUE,  backend_ok |-> TRUE,  master |-> None],
      [use_keyring |-> TRUE,  backend_ok |-> TRUE,  master |-> "M"],
      [use_keyring |-> TRUE,  backend_ok |-> FALSE, master |-> "M"],
      [use_keyring |-> FALSE, backend_ok |-> FALSE, master |-> None] }

\* CredentialManager.__init__ and _init_encryption, lines 111-142, over an
\* empty storage directory and an empty keyring
NewManager(env, salt) ==
    [use_keyring |-> env.use_keyring,
     backend_ok |-> env.backend_ok,
     encryption |-> IF env.master = None THEN NoEncryption
                    ELSE EncryptionManager(env.master, salt),
     keyring |-> EmptyDict,
     credentials_file |-> NoFile,
     salt_file |-> IF env.master = None THEN None ELSE salt]

\* _load_credentials_file, lines 220-233
LoadCredentialsFile(m) ==
    IF ~m.credentials_file.exists THEN EmptyDict
    ELSE IF ~m.encryption.set THEN EmptyDict
    ELSE IF ~CanDecrypt(m.encryption, m.credentials_file) THEN EmptyDict
    ELSE DecryptDict(m.encryption, m.credentials_file)

\* _store_in_file, lines 202-218 (raises ValueError without a master password)
StoreInFile(m, c) ==
    [m EXCEPT !.credentials_file =
        EncryptDict(m.encryption, Put(LoadCredentialsFile(m), c.name, CredentialToDict(c)))]

\* store_credential, lines 178-200: the keyring first, the file when the
\* keyring is not used or raises KeyringError
InKeyring(m) == m.use_keyring /\ m.backend_ok

StoreRaises(m) == ~InKeyring(m) /\ ~m.encryption.set

StoreCredential(m, c) ==
    IF InKeyring(m)
    THEN [m EXCEPT !.keyring = Put(@, c.name, JsonDumps(CredentialToDict(c)))]
    ELSE StoreInFile(m, c)

\* get_credential, lines 235-250: the credential, or nothing
GetCredential(m, name) ==
    IF InKeyring(m) /\ name \in DOMAIN m.keyring
    THEN {CredentialFromDict(JsonLoads(m.keyring[name]))}
    ELSE LET credentials == LoadCredentialsFile(m)
         IN  IF name \in DOMAIN credentials
             THEN {CredentialFromDict(credentials[name])}
             ELSE {}

\* export_credentials, lines 284-295: the salt, then the encrypted file dict
ExportCredentials(m, password, salt) ==
    LET export_encryption == EncryptionManager(password, salt)
    IN  <<salt, EncryptDict(export_encryption, LoadCredentialsFile(m))>>

\* import_credentials, lines 314-318: store every credential of the dict
RECURSIVE StoreAll(_, _)
StoreAll(m, credentials) ==
    IF DOMAIN credentials = {} THEN m
    ELSE LET name == CHOOSE n \in DOMAIN credentials : TRUE
             rest == [k \in DOMAIN credentials \ {name} |-> credentials[k]]
         IN  StoreAll(StoreCredential(m, CredentialFromDict(credentials[name])), rest)

\* import_credentials, lines 297-320: the manager afterwards and the result
ImportRaises(m, data, password) ==
    \/ Len(data) < 2
    \/ ~CanDecrypt(EncryptionManager(password, data[1]), data[2])
    \/ /\ StoreRaises(m)
       /\ DOMAIN DecryptDict(EncryptionManager(password, data[1]), data[2]) # {}

ImportCredentials(m, data, password) ==
    IF ImportRaises(m, data, password) THEN m
    ELSE StoreAll(m, DecryptDict(EncryptionManager(password, data[1]), data[2]))

ImportCount(data, password) ==
    Cardinality(DOMAIN DecryptDict(EncryptionManager(password, data[1]), data[2]))

\* secrets.token_bytes(16), line 68: a salt that was never made before
FreshSalt(n) == "salt " \o ToString(n)

\* _init_encryption, lines 133-142: the salt of salt.bin when there is one,
\* a new salt otherwise, which is then written to salt.bin
InitEncryption(m, master_password, fresh) ==
    LET salt == IF m.salt_file # None THEN m.salt_file ELSE fresh
    IN  [m EXCEPT !.encryption = EncryptionManager(master_password, salt),
                  !.salt_file = salt]

\* list_credentials, lines 252-260: the names of the file
ListCredentials(m) == DOMAIN LoadCredentialsFile(m)

\* set_master_password, lines 144-160
SetMasterPassword(m, password, fresh) ==
    LET names == IF m.encryption.set THEN ListCredentials(m) ELSE {}
        creds_data == [n \in {k \in names : GetCredential(m, k) # {}} |->
                          CredentialToDict(CHOOSE c \in GetCredential(m, n) : TRUE)]
        unlinked == [m EXCEPT !.salt_file = None]
    IN  StoreAll(InitEncryption(unlinked, password, fresh), creds_data)

\* verify_master_password, lines 162-176
VerifyMasterPassword(m, password, fresh) ==
    LET test_encryption ==
            EncryptionManager(password, IF m.salt_file # None THEN m.salt_file ELSE fresh)
    IN  m.credentials_file.exists => CanDecrypt(test_encryption, m.credentials_file)

\* A later session: CredentialManager(storage_dir, master_password) over the
\* directory and the keyring the earlier session left behind, lines 111-121
OpenSession(m, master_password, fresh) ==
    LET opened == [m EXCEPT !.encryption = NoEncryption]
    IN  IF master_password = None THEN opened
        ELSE InitEncryption(opened, master_password, fresh)

\* What can happen to exported bytes before they are imported.
Tampers == {"short", "payload", "salt"}
Tamper(data, kind) ==
    CASE kind = "short" -> SubSeq(data, 1, 1)
      [] kind = "payload" -> <<data[1], [data[2] EXCEPT !.intact = FALSE]>>
      [] kind = "salt" -> <<"another salt", data[2]>>
      [] OTHER -> data

CredInit ==
    /\ cred_phase = "new"
    /\ managers = [id \in ManagerIds |-> NewManager(CHOOSE e \in Environments : TRUE, id)]
    /\ cred_stored = EmptyDict
    /\ cred_calls = 0
    /\ export_data = <<>>
    /\ export_password = None
    /\ import_password = None
    /\ import_result = [raised |-> FALSE, count |-> 0]
    /\ cred_op = None
    /\ sessions = 0
    /\ salts_made = 0
    /\ import_tamper = None

\* The two managers are constructed, each over its own empty storage
\* directory and keyring.
NewManagers(src_env, dst_env) ==
    /\ cred_phase = "new"
    /\ cred_phase' = "ready"
    /\ managers' = [id \in ManagerIds |->
                       NewManager(IF id = "src" THEN src_env ELSE dst_env, id)]
    /\ UNCHANGED <<cred_stored, cred_calls, export_data, export_password,
                   import_password, import_result, nonCredVars>>

\* store_credential(c) on the exporting manager
StoreCredentialCall(c) ==
    /\ cred_phase = "ready"
    /\ cred_calls < MaxStores
    /\ cred_calls' = cred_calls + 1
    /\ IF StoreRaises(managers["src"])
       THEN UNCHANGED <<managers, cred_stored>>
       ELSE /\ managers' = [managers EXCEPT !["src"] = StoreCredential(@, c)]
            /\ cred_stored' = Put(cred_stored, c.name, c)
    /\ UNCHANGED <<cred_phase, export_data, export_password, import_password,
                   import_result, nonCredVars>>

\* export_credentials(password) on the exporting manager
ExportCredentialsCall(password) ==
    /\ cred_phase = "ready"
    /\ cred_phase' = "exported"
    /\ export_data' = ExportCredentials(managers["src"], password, "export salt")
    /\ export_password' = password
    /\ UNCHANGED <<managers, cred_stored, cred_calls, import_password, import_result,
                   nonCredVars>>

\* import_credentials(data, password) on the importing manager
ImportCredentialsCall(password) ==
    /\ cred_phase = "exported"
    /\ cred_phase' = "imported"
    /\ import_password' = password
    /\ managers' = [managers EXCEPT !["dst"] = ImportCredentials(@, export_data, password)]
    /\ import_result' =
          IF ImportRaises(managers["dst"], export_data, password)
          THEN [raised |-> TRUE, count |-> 0]
          ELSE [raised |-> FALSE, count |-> ImportCount(export_data, password)]
    /\ UNCHANGED <<cred_stored, cred_calls, export_data, export_password, nonCredVars>>

\* import_credentials(data, password) with bytes that are not the exported ones
TamperedImportCall(password, kind) ==
    /\ cred_phase = "exported"
    /\ cred_phase' = "imported"
    /\ import_password' = password
    /\ import_tamper' = kind
    /\ LET data == Tamper(export_data, kind)
       IN  /\ managers' = [managers EXCEPT !["dst"] = ImportCredentials(@, data, password)]
           /\ import_result' =
                 IF ImportRaises(managers["dst"], data, password)
                 THEN [raised |-> TRUE, count |-> 0]
                 ELSE [raised |-> FALSE, count |-> ImportCount(data, password)]
    /\ UNCHANGED <<cred_stored, cred_calls, export_data, export_password, cred_op,
                   sessions, salts_made, otherThanCredVars>>

\* store_credential(c) on the importing manager, before the import
ImporterStoreCall(c) ==
    /\ cred_phase = "ready"
    /\ cred_calls < MaxStores
    /\ ~StoreRaises(managers["dst"])
    /\ cred_calls' = cred_calls + 1
    /\ managers' = [managers EXCEPT !["dst"] = StoreCredential(@, c)]
    /\ UNCHANGED <<cred_phase, cred_stored, export_data, export_password,
                   import_password, import_result, nonCredVars>>

\* The keyring backend starts or stops raising KeyringError.
KeyringBackend(ok) ==
    /\ cred_phase = "ready"
    /\ managers["src"].use_keyring
    /\ managers["src"].backend_ok # ok
    /\ managers' = [managers EXCEPT !["src"].backend_ok = ok]
    /\ UNCHANGED <<cred_phase, cred_stored, cred_calls, export_data, export_password,
                   import_password, import_result, nonCredVars>>

\* set_master_password(password), gui.py 1519-1523
SetMasterPasswordCall(password) ==
    /\ cred_phase = "ready"
    /\ sessions < MaxSessions
    /\ sessions' = sessions + 1
    /\ salts_made' = salts_made + 1
    /\ cred_op' = "set_master"
    /\ managers' = [managers EXCEPT
                       !["src"] = SetMasterPassword(@, password, FreshSalt(salts_made))]
    /\ UNCHANGED <<cred_phase, cred_stored, cred_calls, export_data, export_password,
                   import_password, import_result, import_tamper, otherThanCredVars>>

\* The program is started again: a new CredentialManager over the same
\* directory, without a master password (gui.py 650-652) or with one.
OpenSessionCall(master_password) ==
    /\ cred_phase = "ready"
    /\ sessions < MaxSessions
    /\ sessions' = sessions + 1
    /\ salts_made' = salts_made + 1
    /\ cred_op' = "open"
    /\ managers' = [managers EXCEPT
                       !["src"] = OpenSession(@, master_password, FreshSalt(salts_made))]
    /\ UNCHANGED <<cred_phase, cred_stored, cred_calls, export_data, export_password,
                   import_password, import_result, import_tamper, otherThanCredVars>>

(***************************************************************************)
(* The AI Audit Engine (src/ai_engine.py) and the audit run that drives it *)
(* (AuditThread.run, src/gui.py).                                          *)
(***************************************************************************)
MaxAuditSteps == 2

ApiAttempts == 3
InputPrice == 3
OutputPrice == 15

\* self._playback_screenshots.get(action.id) and Path(play_ss).exists() for
\* one step: no entry, a path whose file is gone, a path whose file exists.
StepShots == {"none", "missing", "file"}

AuditInputs == UNION {[1 .. n -> StepShots] : n \in 0 .. MaxAuditSteps}

\* screenshot_steps as AuditThread.run builds it: the indices of the steps
\* whose screenshot file exists, in step order.
ScreenshotSteps(shots) ==
    LET Eligible(i) == shots[i + 1] = "file"
    IN  SelectSeq([k \in 1 .. Len(shots) |-> k - 1], Eligible)

\* AIEngine.__init__
NewAIEngine == [api_calls |-> 0, input_tokens |-> 0, output_tokens |-> 0]

\* A text with or without surrounding white space, and str.strip().
NoText == [body |-> None, padded |-> FALSE]
Placeholder ==
    [body |-> "No screenshots were captured during this playback run.",
     padded |-> FALSE]
Strip(text) == [text EXCEPT !.padded = FALSE]

\* What client.messages.create can do: raise, or return a message with its
\* usage and its list of content blocks, which may be empty.
ApiErrors == {"APITimeoutError", "OverloadedError"}
NoUsage == [input_tokens |-> 0, output_tokens |-> 0]
Usages == {[input_tokens |-> 5000, output_tokens |-> 1000],
           [input_tokens |-> 2500, output_tokens |-> 500]}
ContentLists == {<<>>, <<[text |-> [body |-> "prose", padded |-> TRUE]]>>}
ApiResponses ==
    [raises : {TRUE}, error : ApiErrors, usage : {NoUsage}, content : {<<>>}]
    \cup [raises : {FALSE}, error : {None}, usage : Usages, content : ContentLists]

\* The wait after the failed attempt number "attempt" (from 0), in seconds.
Backoff(api_attempt) == 2 ^ api_attempt

\* Lines 162-164 of _call_api_text.
CountResponse(e, usage) ==
    [api_calls |-> e.api_calls + 1,
     input_tokens |-> e.input_tokens + usage.input_tokens,
     output_tokens |-> e.output_tokens + usage.output_tokens]

\* The attempt raises: create raised, or resp.content[0] does not exist.
AttemptRaises(resp) == resp.raises \/ resp.content = <<>>
AttemptError(resp) == IF resp.raises THEN resp.error ELSE "IndexError"

\* The engine after one pass of the loop body with this response.
EngineAfterAttempt(e, resp) ==
    IF resp.raises THEN e ELSE CountResponse(e, resp.usage)

\* estimated_cost_usd in millionths of a dollar.  The property divides this
\* integer by 1_000_000; Python's true division rounds the exact quotient
\* to the nearest double, so 60000 stands for the double 0.06, and distinct
\* integers of this size give distinct doubles.
EstimatedCostMicroUsd(e) ==
    e.input_tokens * InputPrice + e.output_tokens * OutputPrice

NoCall ==
    [active |-> FALSE, caller |-> None, api_attempt |-> 0, last_err |-> None,
     sleeps |-> <<>>, entry |-> NewAIEngine, outcome |-> None]

NoAuditReport ==
    [exists |-> FALSE, total_api_calls |-> 0, estimated_cost_micro_usd |-> 0]

NoAuditOut ==
    [screenshot_analysis |-> NoText, executive_summary |-> NoText,
     report |-> NoAuditReport, error |-> None]

NoSuccesses == [calls |-> 0, input_tokens |-> 0, output_tokens |-> 0]

AiInit ==
    /\ audit_pc = "idle"
    /\ screenshot_steps = <<>>
    /\ engine = NewAIEngine
    /\ api_call = NoCall
    /\ audit_out = NoAuditOut
    /\ succeeded = NoSuccesses

\* AuditThread.run, gui.py 434-494: a new engine, and the screenshot steps.
AuditRun(shots) ==
    /\ audit_pc = "idle"
    /\ audit_pc' = "analysis"
    /\ engine' = NewAIEngine
    /\ screenshot_steps' = ScreenshotSteps(shots)
    /\ UNCHANGED <<api_call, audit_out, succeeded, nonAiVars>>

\* engine.analyze_screenshots(...), up to its call of _call_api_text.
AnalyzeScreenshots ==
    /\ audit_pc = "analysis"
    /\ ~api_call.active
    /\ IF screenshot_steps = <<>>
       THEN /\ audit_out' = [audit_out EXCEPT !.screenshot_analysis = Placeholder]
            /\ audit_pc' = "summary"
            /\ UNCHANGED api_call
       ELSE /\ api_call' = [NoCall EXCEPT !.active = TRUE, !.caller = "analysis",
                                           !.entry = engine]
            /\ UNCHANGED <<audit_out, audit_pc>>
    /\ UNCHANGED <<engine, screenshot_steps, succeeded, nonAiVars>>

\* engine.generate_executive_summary(...), up to its call of _call_api_text.
GenerateExecutiveSummary ==
    /\ audit_pc = "summary"
    /\ ~api_call.active
    /\ api_call' = [NoCall EXCEPT !.active = TRUE, !.caller = "summary",
                                   !.entry = engine]
    /\ UNCHANGED <<audit_pc, audit_out, engine, screenshot_steps, succeeded,
                   nonAiVars>>

\* One pass of the loop of _call_api_text with the response of
\* client.messages.create, and what follows it in the same thread: the
\* return to AuditThread.run, which goes on to the next call or assembles
\* the report, or, after the third failure, the RuntimeError that
\* AuditThread.run catches.
ApiAttempt(resp) ==
    /\ api_call.active
    /\ engine' = EngineAfterAttempt(engine, resp)
    /\ IF AttemptRaises(resp)
       THEN /\ api_call' =
                  [api_call EXCEPT
                      !.api_attempt = @ + 1,
                      !.last_err = AttemptError(resp),
                      !.sleeps = Append(@, Backoff(api_call.api_attempt)),
                      !.active = api_call.api_attempt + 1 < ApiAttempts,
                      !.outcome = IF api_call.api_attempt + 1 < ApiAttempts
                                  THEN None ELSE "raised"]
            /\ IF api_call.api_attempt + 1 < ApiAttempts
               THEN UNCHANGED <<audit_pc, audit_out>>
               ELSE /\ audit_pc' = "failed"
                    /\ audit_out' =
                          [audit_out EXCEPT
                              !.error = [type |-> "RuntimeError",
                                         last_err |-> AttemptError(resp)]]
            /\ UNCHANGED succeeded
       ELSE /\ api_call' = [api_call EXCEPT !.active = FALSE,
                                            !.outcome = "returned"]
            /\ succeeded' =
                  [calls |-> succeeded.calls + 1,
                   input_tokens |-> succeeded.input_tokens + resp.usage.input_tokens,
                   output_tokens |-> succeeded.output_tokens + resp.usage.output_tokens]
            /\ IF api_call.caller = "analysis"
               THEN /\ audit_pc' = "summary"
                    /\ audit_out' =
                          [audit_out EXCEPT
                              !.screenshot_analysis = Strip(resp.content[1].text)]
               ELSE /\ audit_pc' = "finished"
                    /\ audit_out' =
                          [audit_out EXCEPT
                              !.executive_summary = Strip(resp.content[1].text),
                              !.report =
                                  [exists |-> TRUE,
                                   total_api_calls |-> engine'.api_calls,
                                   estimated_cost_micro_usd |->
                                       EstimatedCostMicroUsd(engine')]]
    /\ UNCHANGED <<screenshot_steps, nonAiVars>>

(***************************************************************************)
(* The HTML Report Generator (src/report_generator.py).  A document is the *)
(* record of the parts _build_html writes between its fixed markup.        *)
(***************************************************************************)
MaxRenders == 2

ImagePaths == {"a.png", "b.png"}
FileContents == {"missing", "png"}
GeneratedAts == {"2024-05-01 10:00:00", "2024-05-02 11:30:00"}

\* Path(path).read_bytes() and base64, "" when the read raises.
EncodeImageFile(files, path) ==
    IF files[path] = "missing"
    THEN ""
    ELSE "base64 of " \o files[path]

\* A text as its lines, each line as its leading mark and the rest.
NoSummary == <<>>
SummaryText == <<[mark |-> "## ", rest |-> "Result"], [mark |-> "", rest |-> ""],
                 [mark |-> "", rest |-> "All steps passed"]>>

MdLine(line) ==
    IF line.mark = "## " THEN <<[tag |-> "h3", text |-> line.rest]>>
    ELSE IF line.mark = "# " THEN <<[tag |-> "h2", text |-> line.rest]>>
    ELSE IF line.mark = "- " THEN <<[tag |-> "li", text |-> line.rest]>>
    ELSE IF line.rest # "" THEN <<[tag |-> "p", text |-> line.rest]>>
    ELSE <<>>

RECURSIVE MdToHtml(_)
MdToHtml(text) ==
    IF text = <<>> THEN <<>> ELSE MdLine(Head(text)) \o MdToHtml(Tail(text))

NoTiming ==
    [exists |-> FALSE, playback_duration_ms |-> 0, has_page_load |-> FALSE,
     page_load_time_ms |-> 0]
Timings ==
    {NoTiming,
     [exists |-> TRUE, playback_duration_ms |-> 120, has_page_load |-> TRUE,
      page_load_time_ms |-> 300]}

\* The StepAnalysis of the step at this index, as AuditThread.run builds it.
StepAnalysis(index, path, timing) ==
    [step_index |-> index, action_type |-> "click",
     action_description |-> "step " \o ToString(index),
     play_screenshot_path |-> path, timing |-> timing]

StepAnalysesOf(paths, timings) ==
    [k \in 1 .. Len(paths) |-> StepAnalysis(k - 1, paths[k], timings[k])]

StepAnalysesLists ==
    UNION {{StepAnalysesOf(paths, timings) :
                paths \in [1 .. n -> ImagePaths \cup {None}],
                timings \in [1 .. n -> Timings]} : n \in 0 .. MaxAuditSteps}

AuditReports ==
    {[context |-> [recording_name |-> "login", url |-> "https://example.test",
                   purpose |-> "", verification_goal |-> "",
                   total_steps |-> Len(sas)],
      step_analyses |-> sas,
      executive_summary |-> summary,
      screenshot_analysis |-> NoSummary,
      generated_at |-> at,
      ai_model_used |-> "claude-sonnet-4-20250514",
      total_api_calls |-> 2] :
        sas \in StepAnalysesLists, summary \in {NoSummary, SummaryText},
        at \in GeneratedAts}

NoReport ==
    [context |-> [recording_name |-> None, url |-> None, purpose |-> "",
                  verification_goal |-> "", total_steps |-> 0],
     step_analyses |-> <<>>, executive_summary |-> NoSummary,
     screenshot_analysis |-> NoSummary, generated_at |-> None,
     ai_model_used |-> None, total_api_calls |-> 0]

\* Lines 80-84.
TimingStr(sa) ==
    IF ~sa.timing.exists THEN ""
    ELSE ToString(sa.timing.playback_duration_ms) \o "ms"
         \o (IF sa.timing.has_page_load
             THEN " | Page load: " \o ToString(sa.timing.page_load_time_ms) \o "ms"
             ELSE "")

\* Lines 73-94: the gallery, one card for each step whose file can be read.
GalleryCard(files, sa) ==
    IF sa.play_screenshot_path = None THEN <<>>
    ELSE IF EncodeImageFile(files, sa.play_screenshot_path) = "" THEN <<>>
    ELSE <<[step |-> sa.step_index + 1, action_type |-> sa.action_type,
            timing_str |-> TimingStr(sa),
            action_description |-> sa.action_description,
            img |-> EncodeImageFile(files, sa.play_screenshot_path)]>>

RECURSIVE ScreenshotsHtml(_, _)
ScreenshotsHtml(files, sas) ==
    IF sas = <<>> THEN <<>>
    ELSE GalleryCard(files, Head(sas)) \o ScreenshotsHtml(files, Tail(sas))

\* Lines 97-111: the action log, one row for each step.
LogRow(sa) ==
    [step |-> sa.step_index + 1, action_type |-> sa.action_type,
     action_description |-> sa.action_description,
     dur |-> IF sa.timing.exists
             THEN ToString(sa.timing.playback_duration_ms) \o "ms" ELSE "-",
     pl |-> IF sa.timing.exists /\ sa.timing.has_page_load
            THEN ToString(sa.timing.page_load_time_ms) \o "ms" ELSE "",
     ss_icon |-> sa.play_screenshot_path # None]

LogRows(sas) == [k \in 1 .. Len(sas) |-> LogRow(sas[k])]

\* Lines 118-120.
Completed(sas) ==
    Cardinality({k \in 1 .. Len(sas) :
                    sas[k].timing.exists /\ sas[k].timing.playback_duration_ms > 0})
SsCount(sas) ==
    Cardinality({k \in 1 .. Len(sas) : sas[k].play_screenshot_path # None})

\* _build_html, were it to write the time of the rendering as well.
BuildHtml_Stamped(r, env) ==
    [title |-> r.context.recording_name,
     header |-> [recording_name |-> r.context.recording_name, url |-> r.context.url,
                 ai_model_used |-> r.ai_model_used,
                 total_api_calls |-> r.total_api_calls],
     stamps |-> <<r.generated_at, "rendered at " \o ToString(env.clock)>>,
     stats |-> [total |-> r.context.total_steps,
                completed |-> Completed(r.step_analyses),
                ss_count |-> SsCount(r.step_analyses)],
     summary_html |-> IF r.executive_summary # NoSummary
                      THEN MdToHtml(r.executive_summary)
                      ELSE <<[tag |-> "p", text |-> "No summary generated."]>>,
     audit_context |-> r.context.purpose # "" \/ r.context.verification_goal # "",
     screenshot_analysis_html |-> MdToHtml(r.screenshot_analysis),
     screenshots_html |-> ScreenshotsHtml(env.files, r.step_analyses),
     log_rows |-> LogRows(r.step_analyses)]

\* _build_html, lines 54-220.  env is what the process could read while it
\* renders: the files on disk and the clock.  The code reads the files only.
BuildHtml(r, env) ==
    [title |-> r.context.recording_name,
     header |-> [recording_name |-> r.context.recording_name, url |-> r.context.url,
                 ai_model_used |-> r.ai_model_used,
                 total_api_calls |-> r.total_api_calls],
     stamps |-> <<r.generated_at>>,
     stats |-> [total |-> r.context.total_steps,
                completed |-> Completed(r.step_analyses),
                ss_count |-> SsCount(r.step_analyses)],
     summary_html |-> IF r.executive_summary # NoSummary
                      THEN MdToHtml(r.executive_summary)
                      ELSE <<[tag |-> "p", text |-> "No summary generated."]>>,
     audit_context |-> r.context.purpose # "" \/ r.context.verification_goal # "",
     screenshot_analysis_html |-> MdToHtml(r.screenshot_analysis),
     screenshots_html |-> ScreenshotsHtml(env.files, r.step_analyses),
     log_rows |-> LogRows(r.step_analyses)]

RenderInit ==
    /\ render_report = NoReport
    /\ image_files = [p \in ImagePaths |-> "missing"]
    /\ render_clock = 0
    /\ renders = <<>>

\* An AuditReport is there to be rendered, and the screenshot files it names.
RenderReport(r, files) ==
    /\ render_report = NoReport
    /\ render_report' = r
    /\ image_files' = files
    /\ UNCHANGED <<render_clock, renders, nonRenderVars>>

\* get_html(report), lines 50-52.  Time has passed since the call before.
GetHtml ==
    /\ render_report # NoReport
    /\ Len(renders) < MaxRenders
    /\ render_clock' = render_clock + 1
    /\ renders' = Append(renders,
                         [files |-> image_files,
                          html |-> BuildHtml(render_report,
                                             [files |-> image_files,
                                              clock |-> render_clock'])])
    /\ UNCHANGED <<render_report, image_files, nonRenderVars>>

\* A screenshot file is written or removed between two renderings.
ImageFileChanges(path, content) ==
    /\ render_report # NoReport
    /\ renders # <<>>
    /\ Len(renders) < MaxRenders
    /\ image_files[path] # content
    /\ image_files' = [image_files EXCEPT ![path] = content]
    /\ UNCHANGED <<render_report, render_clock, renders, nonRenderVars>>

(***************************************************************************)
(* RecordedAction.to_dict / from_dict (src/recorder.py 101-141).  An       *)
(* Optional field is the set of its values: empty for None, else one value. *)
(***************************************************************************)
\* Two members of the enum ActionType, each with its value.
ActionTypeMembers ==
    {[name |-> "MOUSE_CLICK", value |-> "mouse_click"],
     [name |-> "KEY_TYPE", value |-> "key_type"]}

\* ActionType(value)
ActionTypeOf(value) == CHOOSE m \in ActionTypeMembers : m.value = value

IntFields == {"x", "y", "dx", "dy"}
StrFields == {"key", "text", "button", "credential_name", "credential_field",
              "window_title", "window_class", "description"}
OptionalFields == IntFields \cup StrFields
RequiredFields == {"id", "action_type", "timestamp"}
DefaultedFields == {"delay_before", "options"}
ActionFields ==
    RequiredFields \cup OptionalFields \cup DefaultedFields \cup {"screen_region"}

NoOptions == <<>>

\* A ScreenRegion object, asdict(region) and ScreenRegion(**d).
SomeScreenRegion ==
    [class |-> "ScreenRegion", x |-> 0, y |-> 4, width |-> 30, height |-> 20,
     image_path |-> {"region.png"}, image_hash |-> {}]

AsDict(region) == [k \in DOMAIN region \ {"class"} |-> region[k]]

ScreenRegionOf(d) ==
    [k \in DOMAIN d \cup {"class"} |-> IF k = "class" THEN "ScreenRegion" ELSE d[k]]

\* The RecordedActions serialized: every subset of the optional fields set,
\* with values that Python takes for false among them (0, "").
SerialActions ==
    [id : {"action_00001"}, action_type : ActionTypeMembers, timestamp : {15},
     x : {{}, {0}}, y : {{}, {240}}, key : {{}, {"enter"}}, text : {{}, {""}},
     button : {{}, {"left"}}, dx : {{}, {0}}, dy : {{}, {-3}},
     credential_name : {{}, {"portal"}}, credential_field : {{}, {"password"}},
     screen_region : {{}, {SomeScreenRegion}},
     delay_before : {0}, window_title : {{}, {"Login"}},
     window_class : {{}, {"Chrome"}}, options : {NoOptions},
     description : {{}, {"Click at (0, 240)"}}]

\* Whether "if v" takes this value of field k for false.
Falsy(k, v) ==
    IF k \in IntFields \/ k \in {"timestamp", "delay_before"} THEN v = 0
    ELSE IF k = "options" THEN v = NoOptions
    ELSE IF k \in StrFields \/ k = "id" THEN v = ""
    ELSE FALSE

\* The value to_dict writes under key k, when it writes one.
DictValue(a, k) ==
    IF k = "action_type" THEN a.action_type.value
    ELSE IF k = "screen_region" THEN AsDict(CHOOSE r \in a.screen_region : TRUE)
    ELSE IF k \in OptionalFields THEN CHOOSE v \in a[k] : TRUE
    ELSE a[k]

\* Whether the field k of a is None.
IsNone(a, k) == (k \in OptionalFields \/ k = "screen_region") /\ a[k] = {}

\* to_dict, were it to keep the values Python takes for true ("if v").
ActionToDict_Truthy(a) ==
    [k \in {f \in ActionFields : ~IsNone(a, f) /\ ~Falsy(f, DictValue(a, f))}
        |-> DictValue(a, k)]

\* to_dict, lines 101-127: every field but screen_region, then screen_region
\* when there is one, then only the keys whose value is not None.
ActionToDict(a) ==
    [k \in {f \in ActionFields : ~IsNone(a, f)} |-> DictValue(a, k)]

\* from_dict, lines 129-141: the keys that are fields, the dataclass
\* defaults for the fields without a key.
ActionFromDict(d) ==
    [f \in ActionFields |->
        IF f = "screen_region"
        THEN (IF f \in DOMAIN d THEN {ScreenRegionOf(d[f])} ELSE {})
        ELSE IF f = "action_type" THEN ActionTypeOf(d[f])
        ELSE IF f \in OptionalFields THEN (IF f \in DOMAIN d THEN {d[f]} ELSE {})
        ELSE IF f = "delay_before" THEN (IF f \in DOMAIN d THEN d[f] ELSE 0)
        ELSE IF f = "options" THEN (IF f \in DOMAIN d THEN d[f] ELSE NoOptions)
        ELSE d[f]]

SerialInit ==
    /\ ser_phase = "none"
    /\ ser_action = <<>>
    /\ ser_dict = <<>>
    /\ ser_back = <<>>

\* a.to_dict()
ToDictCall(a) ==
    /\ ser_phase = "none"
    /\ ser_phase' = "dict"
    /\ ser_action' = a
    /\ ser_dict' = ActionToDict(a)
    /\ UNCHANGED <<ser_back, nonSerialVars>>

\* RecordedAction.from_dict(d) of the dictionary just made
FromDictCall ==
    /\ ser_phase = "dict"
    /\ ser_phase' = "back"
    /\ ser_back' = ActionFromDict(ser_dict)
    /\ UNCHANGED <<ser_action, ser_dict, nonSerialVars>>

(***************************************************************************)
(* The recordings of the GUI Shell (src/gui.py) and of the database        *)
(* (src/database.py), next to the schedules of the Automation Scheduler.   *)
(***************************************************************************)
RecordingIds == {"rec1", "rec2"}

\* The recording_id create_schedule is given (gui.py 1364-1368): the id of
\* the recording selected in the list.
ScheduleRecordingId(id) == "rec1"

LibraryInit ==
    /\ recording_files = {}
    /\ db_recordings = {}
    /\ deleted_recordings = {}

\* The end of a recording session, gui.py 1180-1191: the JSON file and the
\* row of the new recording.
SaveRecordingCall(rec) ==
    /\ rec \notin recording_files
    /\ rec \notin deleted_recordings
    /\ recording_files' = recording_files \cup {rec}
    /\ db_recordings' = db_recordings \cup {rec}
    /\ UNCHANGED <<deleted_recordings, nonLibraryVars>>

\* Database.delete_recording(id), database.py 197-205: the row goes, and
\* with it the rows of the tables that refer to it.
DbDeleteRecording(rows, id) == rows \ {id}

\* MainWindow._delete_recording, gui.py 1372-1383, for a recording of the
\* list: unlink the file, delete the row, load the list again.
DeleteRecordingCall(rec) ==
    /\ rec \in recording_files
    /\ recording_files' = recording_files \ {rec}
    /\ db_recordings' = DbDeleteRecording(db_recordings, rec)
    /\ deleted_recordings' = deleted_recordings \cup {rec}
    /\ UNCHANGED nonLibraryVars

\* recording_path.exists() in _execute_schedule, scheduler.py 512-514
RecordingFound(id) == ScheduleRecordingId(id) \in recording_files

(***************************************************************************)
(* Playback from the GUI Shell (src/gui.py): the Play button, the          *)
(* PlaybackThreads on the one PlaybackEngine of the window, and the audit  *)
(* launched when a playback is done.  Here every action of a recording     *)
(* succeeds; retries and failures are in the model of the engine above.    *)
(* The clock counts ticks, TicksPerSecond of them to the second.           *)
(***************************************************************************)
MaxPlays == 2
TicksPerSecond == 4

PlayIds == 1 .. MaxPlays

\* The recordings in the list, each with the actions playback runs.
ListedActions(rec) ==
    IF rec = "rec1"
    THEN <<[id |-> "action_00001", action_type |-> "screenshot"],
           [id |-> "action_00002", action_type |-> "screenshot"]>>
    ELSE <<[id |-> "action_00001", action_type |-> "mouse_click"],
           [id |-> "action_00002", action_type |-> "screenshot"]>>

NoPath == [dir |-> None, precision |-> None, stamp |-> 0]

\* _execute_screenshot, playback.py 537-555: a file in the output folder
\* named screenshot_%Y%m%d_%H%M%S_%f.png, after the time to the microsecond
\* (here to the tick).
ExecuteScreenshot(t) ==
    [dir |-> "out_dir", precision |-> "microsecond", stamp |-> t]

\* capture_full_screen, recorder.py 275-285: a file in the storage folder of
\* the ScreenCapture named screenshot_%Y%m%d_%H%M%S.png, after the time to
\* the second.
CaptureFullScreen(t) ==
    [dir |-> "storage_dir", precision |-> "second", stamp |-> t \div TicksPerSecond]

\* How long a capture takes: a tick, or a whole second.
CaptureTimes == {1, TicksPerSecond}

NoPlayReport == [recording_id |-> None, results |-> <<>>, screenshots |-> <<>>]

NoPlaybackThread ==
    [state |-> "none", recording |-> None, index |-> 0, report |-> NoPlayReport]

\* PlaybackEngine.__init__, playback.py 195-204, the fields execute resets
NewPlaybackEngine ==
    [current_recording |-> None, abort_requested |-> FALSE,
     current_action_index |-> 0, step_screenshots |-> EmptyDict]

ShellInit ==
    /\ gui_selection = None
    /\ playback_threads = [p \in PlayIds |-> NoPlaybackThread]
    /\ playback_engine = NewPlaybackEngine
    /\ shell_clock = 0
    /\ audit_threads = <<>>

Executing(p) == playback_threads[p].state = "executing"
PlaybackPending == \E p \in PlayIds : playback_threads[p].state \in
                                         {"started", "executing", "returned"}

\* The user selects a recording of the list.
SelectRecording(rec) ==
    /\ gui_selection # rec
    /\ gui_selection' = rec
    /\ UNCHANGED <<playback_threads, playback_engine, shell_clock, audit_threads,
                   nonShellVars>>

\* MainWindow._play_recording, gui.py 1256-1270, the user answering Yes: a
\* new PlaybackThread on self.playback_engine is started.
PlayRecording ==
    /\ gui_selection # None
    /\ \E p \in PlayIds :
          /\ playback_threads[p].state = "none"
          /\ \A q \in PlayIds : q < p => playback_threads[q].state # "none"
          /\ playback_threads' =
                [playback_threads EXCEPT
                    ![p] = [NoPlaybackThread EXCEPT !.state = "started",
                                                    !.recording = gui_selection]]
    /\ UNCHANGED <<gui_selection, playback_engine, shell_clock, audit_threads,
                   nonShellVars>>

\* PlaybackThread.run enters execute: playback.py 236-256.
ThreadEntersExecute(p) ==
    /\ playback_threads[p].state = "started"
    /\ playback_engine' =
          [current_recording |-> playback_threads[p].recording,
           abort_requested |-> FALSE, current_action_index |-> 0,
           step_screenshots |-> EmptyDict]
    /\ playback_threads' =
          [playback_threads EXCEPT
              ![p].state = "executing",
              ![p].report = [NoPlayReport EXCEPT
                                !.recording_id = playback_threads[p].recording]]
    /\ UNCHANGED <<gui_selection, shell_clock, audit_threads, nonShellVars>>

\* One pass of the loop of execute for a thread, playback.py 266-303, with
\* _execute_action_with_retry succeeding at once (334-370).  A SCREENSHOT
\* action is captured by _execute_screenshot, whose file is the result's
\* screenshot_path, and then once more by capture_full_screen, whose file
\* goes into _step_screenshots, unless that capture raises.
ThreadPlaysAction(p, took, took_again, capture_raises) ==
    /\ Executing(p)
    /\ playback_threads[p].index < Len(ListedActions(playback_threads[p].recording))
    /\ ~playback_engine.abort_requested
    /\ LET th == playback_threads[p]
           action == ListedActions(th.recording)[th.index + 1]
           shot == action.action_type = "screenshot"
           path == IF shot THEN ExecuteScreenshot(shell_clock) ELSE NoPath
           step_ss == CaptureFullScreen(shell_clock + took)
           res == [action_id |-> action.id, action_type |-> action.action_type,
                   success |-> TRUE, screenshot_path |-> path]
       IN  /\ playback_engine' =
                 [playback_engine EXCEPT
                     !.current_action_index = th.index,
                     !.step_screenshots =
                         IF shot /\ ~capture_raises
                         THEN Put(@, action.id, step_ss) ELSE @]
           /\ playback_threads' =
                 [playback_threads EXCEPT
                     ![p].index = @ + 1,
                     ![p].report.results = Append(@, res),
                     ![p].report.screenshots = IF shot THEN Append(@, path) ELSE @]
           /\ shell_clock' = IF shot THEN shell_clock + took + took_again
                             ELSE shell_clock + took
    /\ UNCHANGED <<gui_selection, audit_threads, nonShellVars>>

\* The loop is over: playback.py 305-327, and PlaybackThread.run emits
\* playback_finished with the report.
ThreadReturns(p) ==
    /\ Executing(p)
    /\ \/ playback_threads[p].index = Len(ListedActions(playback_threads[p].recording))
       \/ playback_engine.abort_requested
    /\ playback_threads' = [playback_threads EXCEPT ![p].state = "returned"]
    /\ playback_engine' = [playback_engine EXCEPT !.current_recording = None]
    /\ UNCHANGED <<gui_selection, shell_clock, audit_threads, nonShellVars>>

\* MainWindow._on_playback_done(report), gui.py 1272-1317, on the GUI
\* thread: with the AI audit enabled and a key set, an AuditThread is made
\* for the recording of the current item of the list.
OnPlaybackDone(p, ai_enabled) ==
    /\ playback_threads[p].state = "returned"
    /\ playback_threads' = [playback_threads EXCEPT ![p].state = "handled"]
    /\ audit_threads' =
          IF ai_enabled /\ gui_selection # None
          THEN Append(audit_threads,
                      [recording |-> gui_selection,
                       report |-> playback_threads[p].report,
                       playback_screenshots |-> playback_engine.step_screenshots])
          ELSE audit_threads
    /\ UNCHANGED <<gui_selection, playback_engine, shell_clock, nonShellVars>>

(***************************************************************************)
(* The recorder and the user who types: which characters of the pending    *)
(* text went into a field marked with mark_sensitive_input (until          *)
(* end_sensitive_input or stop_recording), and which were typed while the  *)
(* recorder was paused.  The recorder does not see the tags.               *)
(***************************************************************************)
FieldInit ==
    /\ marked_field = FALSE
    /\ typed_tags = <<>>

\* The tags of the text that is pending after a callback: a character was
\* added, the last one was removed (backspace), or the text was flushed.
TextTags(buffer) ==
    IF Len(buffer) > Len(text_buffer)
    THEN Append(typed_tags, [marked |-> marked_field, paused |-> paused])
    ELSE SubSeq(typed_tags, 1, Len(buffer))

FieldStep(r, marked) ==
    /\ SetRec(r)
    /\ typed_tags' = TextTags(r.text_buffer)
    /\ marked_field' = marked
    /\ UNCHANGED nonFieldVars

FieldStartRecording ==
    /\ ~is_recording
    /\ FieldStep(StartRecording(RecState), FALSE)

FieldStopRecording ==
    /\ is_recording
    /\ action_counter < MaxCounter
    /\ FieldStep(StopRecording(RecState), FALSE)

FieldPauseRecording ==
    /\ is_recording
    /\ ~paused
    /\ action_counter < MaxCounter
    /\ FieldStep(PauseRecording(RecState), marked_field)

FieldResumeRecording ==
    /\ is_recording
    /\ paused
    /\ FieldStep(ResumeRecording(RecState), marked_field)

FieldMarkSensitiveInput(cred) ==
    /\ is_recording
    /\ ~marked_field
    /\ action_counter < MaxCounter
    /\ FieldStep(MarkSensitiveInput(RecState, cred), TRUE)

FieldEndSensitiveInput ==
    /\ is_recording
    /\ marked_field
    /\ action_counter < MaxCounter
    /\ FieldStep(EndSensitiveInput(RecState), FALSE)

FieldKeyPress(key) ==
    /\ is_recording
    /\ action_counter < MaxCounter
    /\ key \in TextKeys => Len(text_buffer) < MaxText
    /\ FieldStep(OnKeyPress(RecState, key), marked_field)

FieldMouseClick ==
    /\ is_recording
    /\ action_counter < MaxCounter
    /\ FieldStep(OnMouseClick(RecState, "left"), marked_field)

FieldMouseScroll(dy) ==
    /\ is_recording
    /\ scroll_buffer_y + dy \in -MaxScroll..MaxScroll
    /\ FieldStep(OnMouseScroll(RecState, 0, dy), marked_field)

FieldScrollTimerFires ==
    /\ scroll_timer
    /\ action_counter < MaxCounter
    /\ FieldStep([FlushScrollBuffer(RecState) EXCEPT !.scroll_timer = FALSE],
                 marked_field)

ClockInit ==
    /\ since_key = 0
    /\ scroll_left = 0
    /\ burst = <<>>

Init == PbInit /\ RecInit /\ ClockInit /\ SchedInit /\ CredInit /\ AiInit
        /\ RenderInit /\ SerialInit /\ LibraryInit /\ ShellInit
        /\ FieldInit

Next ==
    \/ \E rec \in Recordings, vv \in BOOLEAN, cb \in BOOLEAN : ExecuteBegin(rec, vv, cb)
    \/ \E fails \in BOOLEAN : ExecuteOpenUrl(fails)
    \/ ExecuteLoopCheck
    \/ ExecutePauseGate
    \/ \E cb \in BOOLEAN : ExecuteActionStart(cb)
    \/ \E screen \in Screens, nf \in BOOLEAN : ExecuteActionAttempt(screen, nf)
    \/ \E cb \in BOOLEAN : ExecuteRecordResult(cb)
    \/ ExecuteFinalStatus
    \/ ExecuteExcept
    \/ \E cb \in BOOLEAN : ExecuteFinally(cb)
    \/ ExecuteLeave
    \/ Pause
    \/ Resume
    \/ Abort

Spec == Init /\ [][Next]_vars

RecNext ==
    \/ StartRecordingCall
    \/ StopRecordingCall
    \/ PauseRecordingCall
    \/ ResumeRecordingCall
    \/ \E cred \in Credentials : MarkSensitiveInputCall(cred)
    \/ EndSensitiveInputCall
    \/ \E t \in ManualTypes : AddManualActionCall(t)
    \/ \E button \in Buttons : MouseClickEvent(button)
    \/ \E key \in Keys : KeyPressEvent(key)
    \/ \E dy \in ScrollDeltas : MouseScrollEvent(0, dy)
    \/ ScrollTimerFires

RecSpec == Init /\ [][RecNext]_vars

(***************************************************************************)
(* The recorder with a clock.  A keyboard event restarts the idle time of  *)
(* the keyboard; _on_mouse_scroll arms threading.Timer(0.3, ...), which    *)
(* fires when its time has run out, and time does not pass a due timer.    *)
(***************************************************************************)
ScrollEvent(x, dy) == [x |-> x, dy |-> dy]

\* The idle time is only kept while text is pending.
IdleTime(t, buffer) == IF buffer = <<>> THEN 0 ELSE t

TimedKeyPress(key) ==
    /\ is_recording
    /\ action_counter < MaxTimedCounter
    /\ key \in TextKeys \cup {"space"} => Len(text_buffer) < MaxText
    /\ SetRec(OnKeyPress(RecState, key))
    /\ since_key' = 0
    /\ UNCHANGED <<scroll_left, burst, nonTimedVars>>

TimedScroll(x, dy) ==
    /\ is_recording
    /\ scroll_buffer_y + dy \in -MaxBurst..MaxBurst
    /\ SetRec(OnMouseScroll(RecState, x, dy))
    /\ scroll_left' = IF paused THEN scroll_left ELSE ScrollFlushDelay
    /\ burst' = IF paused THEN burst ELSE Append(burst, ScrollEvent(x, dy))
    /\ UNCHANGED <<since_key, nonTimedVars>>

Tick ==
    /\ is_recording
    /\ ~(scroll_timer /\ scroll_left = 0)
    /\ (text_buffer # <<>> /\ since_key < MaxIdle) \/ scroll_timer
    /\ SetRec(RecState)
    /\ since_key' = IdleTime(Min(since_key + 1, MaxIdle), text_buffer)
    /\ scroll_left' = IF scroll_timer THEN scroll_left - 1 ELSE scroll_left
    /\ UNCHANGED <<burst, nonTimedVars>>

TimedScrollTimerFires ==
    /\ scroll_timer
    /\ scroll_left = 0
    /\ action_counter < MaxTimedCounter
    /\ SetRec([FlushScrollBuffer(RecState) EXCEPT !.scroll_timer = FALSE])
    /\ burst' = <<>>
    /\ since_key' = IdleTime(since_key, text_buffer')
    /\ UNCHANGED <<scroll_left, nonTimedVars>>

TimedStopRecording ==
    /\ is_recording
    /\ action_counter < MaxTimedCounter
    /\ SetRec(StopRecording(RecState))
    /\ burst' = <<>>
    /\ since_key' = IdleTime(since_key, text_buffer')
    /\ UNCHANGED <<scroll_left, nonTimedVars>>

TimedPauseRecording ==
    /\ is_recording
    /\ action_counter < MaxTimedCounter
    /\ SetRec(PauseRecording(RecState))
    /\ since_key' = IdleTime(since_key, text_buffer')
    /\ UNCHANGED <<scroll_left, burst, nonTimedVars>>

TimedRecNext ==
    \/ StartRecordingCall
    \/ TimedStopRecording
    \/ TimedPauseRecording
    \/ ResumeRecordingCall
    \/ \E key \in TimedKeys : TimedKeyPress(key)
    \/ \E x \in Positions, dy \in ScrollDeltas : TimedScroll(x, dy)
    \/ Tick
    \/ TimedScrollTimerFires

TimedRecSpec == Init /\ [][TimedRecNext]_vars

\* The executions of a schedule, one after the other: an execution starts,
\* and time passes to the next due job, while no other execution is in
\* progress. The schedules are hourly ones and one-off ones.
SchedNext ==
    \/ \E e \in BOOLEAN : Startup(e)
    \/ Shutdown
    \/ \E id \in SchedIds, f \in {"hourly", "once"}, r \in BOOLEAN : CreateSchedule(id, f, r)
    \/ \E id \in SchedIds : AllIdle /\ RunNow(id)
    \/ \E id \in SchedIds : AllIdle /\ FireJob(id)
    \/ \E id \in SchedIds : AllIdle /\ WaitForJob(id)
    \/ \E t \in Threads, o \in ExecOutcomes : ExecPlay(t, o)
    \/ \E t \in Threads, f \in BOOLEAN : ExecSave(t, f)
    \/ \E t \in Threads : ExecNotify(t)
    \/ \E t \in Threads, r \in BOOLEAN : ExecCallback(t, r)
    \/ \E t \in Threads : ExecExcept(t)
    \/ \E t \in Threads, f \in BOOLEAN : ExecExceptSave(t, f)
    \/ \E t \in Threads : ExecExceptNotify(t)
    \/ \E t \in Threads : ExecLeave(t)

SchedSpec == Init /\ [][SchedNext]_vars

\* The timetable of the jobs: schedules of every frequency are created,
\* updated, switched off and on, the scheduler is stopped and started again,
\* and the due jobs fire on the pool, where the playback completes.
TimetableNext ==
    \/ Startup(FALSE)
    \/ Shutdown
    \/ \E id \in SchedIds, f \in Frequencies : CreateSchedule(id, f, FALSE)
    \/ \E id \in SchedIds : UpdateSchedule(id)
    \/ \E id \in SchedIds, a \in BOOLEAN : SetActive(id, a)
    \/ \E id \in SchedIds : AllIdle /\ FireJob(id)
    \/ \E dt \in TimeSteps : AllIdle /\ TimePasses(dt)
    \/ \E id \in SchedIds : AllIdle /\ WaitForJob(id)
    \/ ExecPlay("pool", "completed")
    \/ ExecSave("pool", FALSE)
    \/ ExecNotify("pool")
    \/ ExecCallback("pool", FALSE)
    \/ ExecLeave("pool")

TimetableSpec == Init /\ [][TimetableNext]_vars

\* The scheduler with the pool and the GUI thread running side by side: an
\* hourly schedule, its job firing on the pool, run_now on the GUI thread.
ConcNext ==
    \/ Startup(TRUE)
    \/ CreateSchedule("s1", "hourly", TRUE)
    \/ \E id \in SchedIds : RunNow(id)
    \/ \E id \in SchedIds : FireJob(id)
    \/ \E id \in SchedIds : WaitForJob(id)
    \/ \E t \in Threads, o \in {"completed", "missing"} : ExecPlay(t, o)
    \/ \E t \in Threads : ExecSave(t, FALSE)
    \/ \E t \in Threads : ExecNotify(t)
    \/ \E t \in Threads : ExecCallback(t, FALSE)
    \/ \E t \in Threads : ExecExcept(t)
    \/ \E t \in Threads : ExecExceptSave(t, FALSE)
    \/ \E t \in Threads : ExecExceptNotify(t)
    \/ \E t \in Threads : ExecLeave(t)

ConcSpec == Init /\ [][ConcNext]_vars

\* The Credential Manager: store, export, import.
CredNext ==
    \/ \E se \in Environments, de \in Environments : NewManagers(se, de)
    \/ \E c \in CredentialValues : StoreCredentialCall(c)
    \/ \E p \in Passwords : ExportCredentialsCall(p)
    \/ \E p \in Passwords : ImportCredentialsCall(p)

CredSpec == Init /\ [][CredNext]_vars

\* Imports of exported bytes, also altered or cut short ones, into a manager
\* that already holds credentials.
ImportNext ==
    \/ \E se \in Environments, de \in Environments : NewManagers(se, de)
    \/ \E c \in VaultCredentials : StoreCredentialCall(c)
    \/ \E c \in VaultCredentials : ImporterStoreCall(c)
    \/ \E p \in Passwords : ExportCredentialsCall(p)
    \/ \E p \in Passwords : ImportCredentialsCall(p)
    \/ \E p \in Passwords, k \in Tampers : TamperedImportCall(p, k)

ImportSpec == Init /\ [][ImportNext]_vars

\* One manager whose keyring backend fails now and then.
FallbackNext ==
    \/ \E se \in Environments : NewManagers(se, se)
    \/ \E c \in CredentialValues : StoreCredentialCall(c)
    \/ \E ok \in BOOLEAN : KeyringBackend(ok)

FallbackSpec == Init /\ [][FallbackNext]_vars

\* One storage directory over several sessions and master passwords.
SessionNext ==
    \/ \E se \in Environments : NewManagers(se, se)
    \/ \E ok \in BOOLEAN : KeyringBackend(ok)
    \/ \E c \in VaultCredentials : StoreCredentialCall(c)
    \/ \E p \in MasterPasswords : SetMasterPasswordCall(p)
    \/ \E p \in MasterPasswords \cup {None} : OpenSessionCall(p)

SessionSpec == Init /\ [][SessionNext]_vars

\* One audit run: the screenshot analysis, the summary, the report.
AuditNext ==
    \/ \E shots \in AuditInputs : AuditRun(shots)
    \/ AnalyzeScreenshots
    \/ GenerateExecutiveSummary
    \/ \E resp \in ApiResponses : ApiAttempt(resp)

AuditSpec == Init /\ [][AuditNext]_vars

\* One AuditReport rendered several times while its files come and go.
RenderNext ==
    \/ \E r \in AuditReports, files \in [ImagePaths -> FileContents] : RenderReport(r, files)
    \/ GetHtml
    \/ \E path \in ImagePaths, content \in FileContents : ImageFileChanges(path, content)

RenderSpec == Init /\ [][RenderNext]_vars

\* One RecordedAction through to_dict and from_dict.
SerialNext ==
    \/ \E a \in SerialActions : ToDictCall(a)
    \/ FromDictCall

SerialSpec == Init /\ [][SerialNext]_vars

\* Recordings saved, scheduled and deleted while the scheduler's jobs fire.
\* An execution finds its recording when the file is there.
LibraryNext ==
    \/ Startup(FALSE)
    \/ \E rec \in RecordingIds : SaveRecordingCall(rec)
    \/ \E rec \in RecordingIds : DeleteRecordingCall(rec)
    \/ \E id \in SchedIds :
           /\ ScheduleRecordingId(id) \in recording_files
           /\ CreateSchedule(id, "hourly", FALSE)
    \/ \E id \in SchedIds : AllIdle /\ FireJob(id)
    \/ \E id \in SchedIds : AllIdle /\ WaitForJob(id)
    \/ \E o \in {"completed", "missing"} :
           /\ execs["pool"].pc = "load"
           /\ (o = "missing") <=> ~RecordingFound(execs["pool"].id)
           /\ ExecPlay("pool", o)
    \/ ExecSave("pool", FALSE)
    \/ ExecNotify("pool")
    \/ ExecCallback("pool", FALSE)
    \/ ExecExcept("pool")
    \/ ExecExceptSave("pool", FALSE)
    \/ ExecExceptNotify("pool")
    \/ ExecLeave("pool")

LibrarySpec == Init /\ [][LibraryNext]_vars

\* The Play button pressed at any time.
PlayNext ==
    \/ \E rec \in RecordingIds : SelectRecording(rec)
    \/ PlayRecording
    \/ \E p \in PlayIds : ThreadEntersExecute(p)
    \/ \E p \in PlayIds, d \in CaptureTimes : ThreadPlaysAction(p, d, d, FALSE)
    \/ \E p \in PlayIds : ThreadReturns(p)
    \/ \E p \in PlayIds : OnPlaybackDone(p, FALSE)

PlaySpec == Init /\ [][PlayNext]_vars

\* One playback after the other, each followed by its audit when enabled.
PlayAuditNext ==
    \/ \E rec \in RecordingIds : SelectRecording(rec)
    \/ ~PlaybackPending /\ PlayRecording
    \/ \E p \in PlayIds : ThreadEntersExecute(p)
    \/ \E p \in PlayIds, d \in CaptureTimes, e \in CaptureTimes, r \in BOOLEAN :
           ThreadPlaysAction(p, d, e, r)
    \/ \E p \in PlayIds : ThreadReturns(p)
    \/ \E p \in PlayIds, ai \in BOOLEAN : OnPlaybackDone(p, ai)

PlayAuditSpec == Init /\ [][PlayAuditNext]_vars

\* The recorder while the user types into marked fields.
FieldNext ==
    \/ FieldStartRecording
    \/ FieldStopRecording
    \/ \E cred \in {<<"Portal", "password">>} : FieldMarkSensitiveInput(cred)
    \/ FieldEndSensitiveInput
    \/ \E key \in Keys : FieldKeyPress(key)
    \/ FieldMouseClick
    \/ \E dy \in ScrollDeltas : FieldMouseScroll(dy)
    \/ FieldScrollTimerFires

FieldSpec == Init /\ [][FieldNext]_vars

\* The recorder paused and resumed while the user types.
PausedTypingNext ==
    \/ FieldStartRecording
    \/ FieldStopRecording
    \/ FieldPauseRecording
    \/ FieldResumeRecording
    \/ \E key \in Keys : FieldKeyPress(key)
    \/ FieldMouseClick
    \/ \E dy \in ScrollDeltas : FieldMouseScroll(dy)
    \/ FieldScrollTimerFires

PausedTypingSpec == Init /\ [][PausedTypingNext]_vars

\* Executions of recordings of clicks, with fair scheduling of the thread
\* that runs execute and callers that resume or abort what they pause.
LiveRecordings ==
    { rec \in Recordings :
         \A k \in DOMAIN rec.actions : rec.actions[k].action_type = "mouse_click" }

LiveNext ==
    \/ \E rec \in LiveRecordings : ExecuteBegin(rec, TRUE, FALSE)
    \/ \E fails \in BOOLEAN : ExecuteOpenUrl(fails)
    \/ ExecuteLoopCheck
    \/ ExecutePauseGate
    \/ \E cb \in BOOLEAN : ExecuteActionStart(cb)
    \/ \E screen \in Screens, nf \in BOOLEAN : ExecuteActionAttempt(screen, nf)
    \/ \E cb \in BOOLEAN : ExecuteRecordResult(cb)
    \/ ExecuteFinalStatus
    \/ ExecuteExcept
    \/ ExecuteFinally(FALSE)
    \/ ExecuteLeave
    \/ Pause
    \/ Resume
    \/ Abort

\* The steps of execute that wait for nothing: the thread takes them.
ExecuteStep ==
    \/ \E fails \in BOOLEAN : ExecuteOpenUrl(fails)
    \/ ExecuteLoopCheck
    \/ \E cb \in BOOLEAN : ExecuteActionStart(cb)
    \/ \E screen \in Screens, nf \in BOOLEAN : ExecuteActionAttempt(screen, nf)
    \/ \E cb \in BOOLEAN : ExecuteRecordResult(cb)
    \/ ExecuteFinalStatus
    \/ ExecuteExcept
    \/ ExecuteFinally(FALSE)

\* A pause() issued during the execution in progress is in force: execute
\* set the status to running when it began, and only pause() makes it paused.
PausedDuringExecution ==
    /\ pc \notin {"idle", "returned", "raised"}
    /\ status = "paused"
    /\ ~pause_event

\* threading.Event.wait returns for a waiter once set() has been called,
\* whatever follows (strong fairness of the gate), and a pause issued
\* during an execution is followed by resume() or abort().
LiveSpec ==
    /\ Init /\ [][LiveNext]_vars
    /\ WF_vars(ExecuteStep)
    /\ SF_vars(ExecutePauseGate)
    /\ WF_vars(PausedDuringExecution /\ (Resume \/ Abort))

(***************************************************************************)
(* Properties of the Playback Engine.                                      *)
(***************************************************************************)
Returned == pc = "returned"

\* C1: with retry_on_failure <= 0 the first failed PlaybackResult stops the
\* run at once: it is the last of exactly k results for actions 1..k, the
\* k-1 before it succeeded, completed_actions = k-1, failed_actions = 1 and
\* the report's status is failed.  With retry_on_failure > 0 a failed action
\* never stops the run: absent an abort or an unexpected error every action
\* is attempted and the final status is completed.
AbortOnFailureGate ==
    LET res == report.results
        k == Len(res)
    IN  /\ \A i \in 1..k : res[i].action_id = i
        /\ (recording.retry_on_failure <= 0 /\ \E i \in 1..k : ~res[i].success) =>
              /\ ~res[k].success
              /\ \A i \in 1..(k - 1) : res[i].success
              /\ report.completed_actions = k - 1
              /\ report.failed_actions = 1
              /\ report.status = "failed"
              /\ pc \in {"final", "finally", "returned", "raised"}
        /\ recording.retry_on_failure > 0 =>
              /\ report.error_message # "Action failed"
              /\ (Returned /\ report.error_message = None) =>
                    /\ report.status = "completed"
                    /\ k = Len(recording.actions)

\* C1 witness: the first of two actions failed with the gate closed and the
\* run returned failed with a single result.
AbortOnFailureGateWitness ==
    /\ Returned
    /\ recording.retry_on_failure <= 0
    /\ Len(recording.actions) = 2
    /\ Len(report.results) = 1
    /\ report.status = "failed"
    /\ report.completed_actions = 0

IsAttempt(e, n) == e.ev = "attempt" /\ e.n = n
IsRetrySleep(e) == e.ev = "sleep" /\ e.slept = 10

AbortAtPauseGateStopsRun ==
    gateAbort # 0 =>
        /\ pc \notin {"start", "attempt", "record"}
        /\ Len(report.results) < gateAbort
        /\ Returned => report.status = "aborted"

StatusTransitions ==
    { <<"idle", "running">>, <<"running", "paused">>, <<"paused", "running">> }
    \cup ({"running", "paused"} \X {"completed", "failed", "aborted"})

\* C4: the engine status only ever changes along idle -> running,
\* running -> paused, paused -> running and running/paused -> completed,
\* failed or aborted; pause() and resume() outside an execution leave it alone.
StatusFollowsStateMachine ==
    [][status' # status => <<status, status'>> \in StatusTransitions]_vars

\* C5: a report returned by execute() has completed_at set and a terminal
\* status, the last status execute() notified is the report's status, and an
\* unexpected error raised inside the loop surfaces as status failed with the
\* error text as error_message.
ReturnedReportIsFinal ==
    Returned =>
        /\ report.completed_at # None
        /\ report.status \in {"completed", "failed", "aborted"}
        /\ execNotified = report.status
        /\ exc # None => report.status = "failed" /\ report.error_message = exc

\* C5 witness: a callback raised inside the loop and execute() returned.
ReturnedReportIsFinalWitness ==
    /\ Returned
    /\ exc = "callback error"
    /\ Len(report.results) = 1

CurrentAction == recording.actions[idx]

ClickAttempted ==
    /\ pc \in {"attempt", "record"}
    /\ lastClick.checked
    /\ CurrentAction.action_type \in ClickTypes

\* C6: with verify_visuals on, a click whose region has a saved image and
\* whose live content at the recorded coordinates equals the recorded image
\* is verified, is not searched for on the whole screen, and is performed at
\* the recorded coordinates.
IdenticalRegionVerifies ==
    (/\ ClickAttempted
     /\ CurrentAction.screen_region.image_path # None
     /\ lastClick.live = CurrentAction.screen_region.pixels) =>
        /\ lastClick.verified
        /\ ~lastClick.searched
        /\ lastClick.error = None => lastClick.at = CurrentAction.x

\* C7: when the recorded region of a click, double-click or right-click does
\* not verify, the click goes to the center of the match the whole-screen
\* search found, and when the search finds nothing the attempt raises the
\* verification error, performs no click, and is retried like any failure.
VerificationFallback ==
    (ClickAttempted /\ ~lastClick.verified) =>
        /\ lastClick.searched
        /\ IF lastClick.found # NotFound
           THEN /\ lastClick.error # "Visual verification failed"
                /\ lastClick.error = None => lastClick.at = lastClick.found
           ELSE /\ lastClick.error = "Visual verification failed"
                /\ lastClick.at = NotFound
                /\ \/ /\ pc = "attempt"
                      /\ attempt \in 1..3
                      /\ IsRetrySleep(attemptLog[Len(attemptLog)])
                   \/ /\ pc = "record"
                      /\ ~result.success
                      /\ result.error_message = "Visual verification failed"

\* C7 witness: the region did not verify, the image was found elsewhere and
\* the click went there.
VerificationFallbackWitness ==
    /\ ClickAttempted
    /\ ~lastClick.verified
    /\ lastClick.found = MovedPos
    /\ lastClick.at = MovedPos
    /\ CurrentAction.x = RecordedPos

(***************************************************************************)
(* Properties of the Action Recorder.                                      *)
(***************************************************************************)
IsTextFlush(a) == a.action_type \in {"key_type", "credential_input"}

\* The actions a text flush handed to _record_action in the last callback.
TextSubmitted(sub) == SelectSeq(sub, IsTextFlush)

Armed == sensitive_mode /\ current_credential # NoCredential

NoSensitiveKeyType ==
    \A i \in 1..Len(actions) :
        /\ actions[i].action_type = "key_type" =>
              \A j \in 1..Len(actions[i].text) : ~actions[i].text[j].armed
        /\ actions[i].action_type = "credential_input" => actions[i].text = <<>>

SensitiveFlushStep ==
    LET flushed == TextSubmitted(submitted')
    IN  text_buffer # <<>> =>
          \/ /\ flushed = <<>>
             /\ sensitive_mode' = sensitive_mode
             /\ current_credential' = current_credential
          \/ /\ Len(flushed) = 1
             /\ text_buffer' = <<>>
             /\ IF Armed
                THEN /\ flushed[1].action_type = "credential_input"
                     /\ flushed[1].credential = current_credential
                     /\ flushed[1].text = <<>>
                     /\ \/ ~sensitive_mode' /\ current_credential' = NoCredential
                        \/ sensitive_mode' /\ current_credential' \in Credentials
                     /\ (is_recording /\ ~paused /\ ~paused') =>
                           /\ Len(actions') > Len(actions)
                           /\ actions'[Len(actions) + 1] = flushed[1]
                ELSE /\ flushed[1].action_type = "key_type"
                     /\ flushed[1].text = text_buffer

IdsGapless ==
    \A i \in 1..Len(actions) : actions[i].id = ActionId(i)

\* C10: the action-id counter restarts when a new start_recording session
\* begins, so the first action of every session gets action_00001.
CounterRestartsPerSession ==
    [][(~is_recording /\ is_recording') => action_counter' = 0]_vars

\* C11: text that has been typed does not stay in the buffer once more than
\* 0.5 s have passed without keyboard input: by then the burst has been
\* flushed as one KEY_TYPE action.
TextDebounceFlushes ==
    (is_recording /\ ~paused /\ text_buffer # <<>>) => since_key <= text_flush_delay

IsScroll(a) == a.action_type = "mouse_scroll"

\* The scroll actions handed to _record_action in the last step.
ScrollSubmitted(sub) == SelectSeq(sub, IsScroll)

RECURSIVE SumDy(_)
SumDy(b) == IF b = <<>> THEN 0 ELSE b[1].dy + SumDy(Tail(b))

BurstEnds == burst # <<>> /\ burst' = <<>>

ScrollBurstPending ==
    burst # <<>> =>
        /\ scroll_timer
        /\ scroll_left \in 0..ScrollFlushDelay
        /\ scroll_buffer_y = SumDy(burst)

ScrollBurstStep ==
    LET sc == ScrollSubmitted(submitted')
    IN  IF BurstEnds
        THEN /\ scroll_left = 0 \/ ~is_recording'
             /\ Len(sc) = 1
             /\ sc[1].dy = SumDy(burst)
             /\ sc[1].x = burst[Len(burst)].x
             /\ ~paused => /\ Len(actions') > Len(actions)
                           /\ actions'[Len(actions')] = sc[1]
        ELSE sc = <<>>

PauseFlushesText ==
    [][(is_recording /\ ~paused /\ paused' /\ text_buffer # <<>>) =>
          /\ Len(actions') = Len(actions) + 1
          /\ IsTextFlush(actions'[Len(actions')])]_vars

(***************************************************************************)
(* Properties of the Automation Scheduler.                                 *)
(***************************************************************************)
Finished(e) == e.pc \in {"done", "raised"}

InProgress(e) == e.pc \notin {"idle", "done", "raised"}

\* C14: one execution of a schedule adds exactly 1 to run_count and exactly
\* 1 to one of success_count (the playback completed and nothing raised) or
\* failure_count (anything else), and nothing to the other.
RunAccounting ==
    \A t \in Threads :
        Finished(execs[t]) =>
            /\ execs[t].d_run = 1
            /\ execs[t].d_succ + execs[t].d_fail = 1
            /\ execs[t].d_succ = 1 <=>
                  (execs[t].outcome = "completed" /\ execs[t].error = None)

\* C15: no two executions of the same schedule id are in progress at once.
SingleExecutionPerSchedule ==
    \A t1, t2 \in Threads :
        (t1 # t2 /\ InProgress(execs[t1]) /\ InProgress(execs[t2])) =>
            execs[t1].id # execs[t2].id

\* C16: when the process comes up again, every active schedule that had a
\* job pending keeps the next fire time that was pending before.
RestartKeepsNextFire ==
    [][(~sched_started /\ sched_started') =>
          \A id \in SchedIds :
              (/\ schedules_file[id].exists
               /\ schedules_file[id].is_active
               /\ jobs[id].exists
               /\ jobs[id].next_run_time >= now) =>
                    /\ jobs'[id].exists
                    /\ jobs'[id].next_run_time = jobs[id].next_run_time]_vars

\* C17: the job of a schedule with frequency once is run at most once, one
\* minute after the schedule was created.
OnceFiresOnce ==
    \A id \in SchedIds :
        (schedules[id].exists /\ schedules[id].frequency = "once") =>
            /\ fired[id] <= 1
            /\ fired[id] = 1 => last_fired[id] = schedules[id].created_at + 1

\* C18: when the recording is missing, or loading or playing it raises,
\* _execute_schedule ends by returning (not raising, unless writing
\* schedules.json in the handler fails too) a report with status failed and
\* the error text, having set last_run, added 1 to run_count and to
\* failure_count, written schedules.json, and mailed the recipients exactly
\* when a notifier and recipients are configured.
LoadFailureIsReported ==
    \A t \in Threads :
        LET e == execs[t]
        IN  e.outcome \in RaisingOutcomes =>
              /\ e.pc \in {"except", "except_save", "except_notify", "done", "raised"}
              /\ e.pc = "raised" => ~e.saved
              /\ e.pc = "done" =>
                    /\ e.status = "failed"
                    /\ e.error \in {"Recording not found", "execute failed"}
                    /\ e.error = ErrorText(e.outcome)
                    /\ e.d_run = 1 /\ e.d_fail = 1 /\ e.d_succ = 0
                    /\ schedules[e.id].last_run # NoTime
                    /\ e.saved
                    /\ schedules_file[e.id].run_count >= 1
                    /\ e.mailed <=> (notifier /\ schedules[e.id].has_recipients)

\* C18 witness: the recording was missing and the call returned its failed
\* report after mailing it.
LoadFailureIsReportedWitness ==
    \E t \in Threads :
        /\ execs[t].pc = "done"
        /\ execs[t].outcome = "missing"
        /\ execs[t].status = "failed"
        /\ execs[t].mailed

Period(frequency) ==
    CASE frequency = "hourly" -> 60
      [] frequency = "daily" -> 24 * 60
      [] frequency = "weekly" -> 7 * 24 * 60
      [] frequency = "monthly" -> 30 * 24 * 60
      [] frequency = "custom" -> 24 * 60
      [] OTHER -> 0

TriggerOfFrequency ==
    \A id \in SchedIds :
        (schedules[id].exists /\ jobs[id].exists) =>
            LET f == schedules[id].frequency
                job == jobs[id]
                made == job.trigger.at
            IN  CASE f = "once" ->
                        /\ job.trigger.kind = "date"
                        /\ job.next_run_time = made + 1
                  [] f = "custom" ->
                        /\ job.trigger.kind = "cron"
                        /\ job.trigger.cron = schedules[id].cron_expression
                        /\ job.next_run_time % (24 * 60) = 9 * 60
                        /\ job.next_run_time > made
                  [] OTHER ->
                        /\ job.trigger.kind = "interval"
                        /\ job.next_run_time > made
                        /\ (job.next_run_time - made) % Period(f) = 0

TriggerStep ==
    \A id \in SchedIds :
        (/\ jobs[id].exists
         /\ jobs'[id].exists
         /\ jobs'[id].trigger = jobs[id].trigger
         /\ jobs'[id].next_run_time # jobs[id].next_run_time) =>
              /\ now = jobs[id].next_run_time
              /\ jobs'[id].next_run_time = now + Period(schedules[id].frequency)

\* C19: hourly, daily, weekly and monthly schedules get an interval trigger
\* of 1 hour, 24 hours, 7 days and 30 days counted from the creation of the
\* trigger; a custom schedule gets its cron expression ("0 9 * * *" fires
\* every day at 09:00); a once schedule gets a single date one minute ahead.
TriggerDerivation ==
    []TriggerOfFrequency /\ [][TriggerStep]_vars

\* C19 witness: a monthly schedule created at 0 has fired at 30 days and is
\* next due at 60 days.
TriggerDerivationWitness ==
    \E id \in SchedIds :
        /\ schedules[id].exists
        /\ schedules[id].frequency = "monthly"
        /\ jobs[id].exists
        /\ jobs[id].trigger.at = 0
        /\ fired[id] = 1
        /\ last_fired[id] = 43200
        /\ jobs[id].next_run_time = 86400


(***************************************************************************)
(* Properties of the Credential Manager.                                   *)
(***************************************************************************)

\* C20: when the bytes of export_credentials(P) have been imported with the
\* same password P into an empty store that can store credentials,
\* import_credentials has returned the number of credentials that were
\* stored through store_credential, and get_credential gives each of them
\* back with the same name, username, password, url and notes.
ExportImportRoundTrip ==
    (/\ cred_phase = "imported"
     /\ import_password = export_password
     /\ ~StoreRaises(managers["dst"])) =>
        /\ ~import_result.raised
        /\ import_result.count = Cardinality(DOMAIN cred_stored)
        /\ \A name \in DOMAIN cred_stored :
              GetCredential(managers["dst"], name) = {cred_stored[name]}


\* C21: import_credentials with a wrong password, with an altered payload or
\* salt, or with fewer than 17 bytes raises ValueError and leaves the
\* keyring and the encrypted file of the importing manager as they were.
ImportFailsCleanly ==
    [][(/\ cred_phase = "exported"
        /\ cred_phase' = "imported"
        /\ (import_tamper' # None \/ import_password' # export_password)) =>
            /\ import_result'.raised
            /\ managers' = managers]_vars

\* C21 witness: the right password with an altered payload was refused by a
\* manager that holds a credential of its own, while the export held one.
ImportFailsCleanlyWitness ==
    /\ cred_phase = "imported"
    /\ import_tamper = "payload"
    /\ import_password = export_password
    /\ import_result.raised
    /\ GetCredential(managers["dst"], "portal") # {}
    /\ DOMAIN JsonLoads(export_data[2].text) # {}

\* C22: while the keyring answers (or is not used at all), get_credential
\* gives for every name the credential of the most recent store_credential
\* call with that name that returned true.
LastStoreIsRetrievable ==
    (managers["src"].use_keyring => managers["src"].backend_ok) =>
        \A name \in DOMAIN cred_stored :
            GetCredential(managers["src"], name) = {cred_stored[name]}

\* C23: set_master_password(p) on a manager whose encrypted file holds
\* credentials leaves a file that the key of p and the new salt decrypts,
\* with the same names in list_credentials, and verify_master_password(p)
\* true.
MasterPasswordChangeKeepsFile ==
    [][(/\ sessions' = sessions + 1
        /\ cred_op' = "set_master"
        /\ ListCredentials(managers["src"]) # {}) =>
            LET m == managers'["src"]
            IN  /\ CanDecrypt(m.encryption, m.credentials_file)
                /\ ListCredentials(m) = ListCredentials(managers["src"])
                /\ VerifyMasterPassword(m, m.encryption.password, FreshSalt(salts_made'))]_vars

\* C24: when a new session is given the password P under which the encrypted
\* file was written, through the constructor or through set_master_password
\* on a manager constructed without one, and salt.bin still holds the salt
\* of that key, the credentials of the file are retrievable again.
SamePasswordReopensFile ==
    [][(/\ sessions' = sessions + 1
        /\ \/ cred_op' = "open" /\ managers'["src"].encryption.set
           \/ cred_op' = "set_master" /\ ~managers["src"].encryption.set
        /\ managers["src"].credentials_file.exists
        /\ managers["src"].credentials_file.key.password = managers'["src"].encryption.password
        /\ managers["src"].credentials_file.key.salt = managers["src"].salt_file) =>
            LET held == JsonLoads(managers["src"].credentials_file.text)
                m == managers'["src"]
            IN  /\ LoadCredentialsFile(m) = held
                /\ \A name \in DOMAIN held :
                      (InKeyring(m) /\ name \in DOMAIN m.keyring)
                      \/ GetCredential(m, name) = {CredentialFromDict(held[name])}]_vars

(***************************************************************************)
(* Properties of the AI Audit Engine.                                      *)
(***************************************************************************)

\* C25: an audit run that finishes reports exactly 2 API calls when there
\* is at least one eligible screenshot step and exactly 1 when there is
\* none, and then the screenshot analysis is the fixed placeholder; this
\* whatever the number of screenshots and whatever the responses were.
AuditCallCount ==
    audit_pc = "finished" =>
        /\ audit_out.report.total_api_calls
               = (IF screenshot_steps # <<>> THEN 2 ELSE 1)
        /\ screenshot_steps = <<>> => audit_out.screenshot_analysis = Placeholder

\* C26: a call of _call_api_text makes at most 3 attempts, sleeps 1, 2, 4
\* seconds after its failed attempts, raises an error carrying the last
\* underlying error when the attempts are used up, and leaves the call and
\* token counters alone on every failed attempt, adding to them once, the
\* usage of the returned response, when the call succeeds.
ApiCallRetries ==
    /\ api_call.api_attempt <= ApiAttempts
    /\ api_call.sleeps = [i \in 1 .. api_call.api_attempt |-> 2 ^ (i - 1)]
    /\ api_call.outcome = "raised" =>
           /\ api_call.api_attempt = ApiAttempts
           /\ audit_out.error.type = "RuntimeError"
           /\ audit_out.error.last_err = api_call.last_err
    /\ (api_call.active \/ api_call.outcome = "raised") => engine = api_call.entry
    /\ api_call.outcome = "returned" =>
           engine.api_calls = api_call.entry.api_calls + 1

\* C27: the estimated cost is (input tokens x 3 + output tokens x 15) /
\* 1,000,000 over the usage of the calls that succeeded so far; 10,000
\* input and 2,000 output tokens cost 0.06 dollars, 60000 millionths.
CostOfSuccessfulCalls ==
    /\ EstimatedCostMicroUsd(engine)
           = succeeded.input_tokens * 3 + succeeded.output_tokens * 15
    /\ (succeeded.input_tokens = 10000 /\ succeeded.output_tokens = 2000) =>
           EstimatedCostMicroUsd(engine) = 60000

(***************************************************************************)
(* Properties of the HTML Report Generator.                                *)
(***************************************************************************)

SparseRoundTrip ==
    /\ ser_phase # "none" =>
           \A f \in OptionalFields \cup {"screen_region"} :
               f \in DOMAIN ser_dict <=> ser_action[f] # {}
    /\ ser_phase = "back" =>
           /\ ser_back = ser_action
           /\ \A f \in OptionalFields \cup {"screen_region"} :
                  ser_action[f] = {} => ser_back[f] = {}

SparseRoundTripWitness ==
    /\ ser_phase = "back"
    /\ ser_action.x = {0}
    /\ ser_action.text = {""}
    /\ ser_action.y = {}
    /\ ser_action.screen_region # {}
    /\ ser_action.description = {}
    /\ "y" \notin DOMAIN ser_dict
    /\ ser_back.x = {0}

(***************************************************************************)
(* Properties of the delete-recording workflow.                            *)
(***************************************************************************)

\* C30: once the delete-recording workflow has been through for a
\* recording, the scheduler holds no schedule and no job for that recording.
DeletedRecordingHasNoSchedule ==
    \A rec \in deleted_recordings : \A id \in SchedIds :
        ScheduleRecordingId(id) = rec =>
            /\ ~schedules[id].exists
            /\ ~jobs[id].exists

(***************************************************************************)
(* Properties of playback from the GUI Shell.                              *)
(***************************************************************************)

\* C31: at most one execute is in progress on the playback engine of the
\* GUI at any time.
OneExecuteAtATime ==
    Cardinality({p \in PlayIds : Executing(p)}) <= 1

\* C32: when execute has returned, every SCREENSHOT result of the report has
\* its action id in step_screenshots with the file that is the result's
\* screenshot_path and that is in report.screenshots, and two SCREENSHOT
\* actions of the run have different files in step_screenshots.
StepScreenshotsMatchResults ==
    \A p \in PlayIds :
        playback_threads[p].state = "returned" =>
            LET rs == playback_threads[p].report.results
                ss == playback_engine.step_screenshots
                shots == {k \in DOMAIN rs : rs[k].action_type = "screenshot"}
            IN  /\ \A k \in shots :
                       /\ rs[k].action_id \in DOMAIN ss
                       /\ ss[rs[k].action_id] = rs[k].screenshot_path
                       /\ \E n \in DOMAIN playback_threads[p].report.screenshots :
                              playback_threads[p].report.screenshots[n]
                                  = rs[k].screenshot_path
                /\ \A k \in shots, n \in shots :
                       (k # n /\ rs[k].action_id \in DOMAIN ss
                              /\ rs[n].action_id \in DOMAIN ss)
                           => ss[rs[k].action_id] # ss[rs[n].action_id]

\* C40: every audit is launched with the recording that was played, the one
\* whose id is the recording_id of the report it is given.
AuditIsOfPlayedRecording ==
    \A k \in DOMAIN audit_threads :
        audit_threads[k].recording = audit_threads[k].report.recording_id

(***************************************************************************)
(* Properties of the report and the callbacks of execute.                  *)
(***************************************************************************)

Successes(results) == Cardinality({k \in DOMAIN results : results[k].success})

\* C37: in every report execute returns, completed_actions + failed_actions
\* is the number of results and at most total_actions, completed_actions is
\* the number of successful results, and the results are in recording
\* order: result i is that of the i-th action of the recording.
ReportCountsResults ==
    Returned =>
        /\ report.completed_actions + report.failed_actions = Len(report.results)
        /\ Len(report.results) <= report.total_actions
        /\ report.total_actions = Len(recording.actions)
        /\ report.completed_actions = Successes(report.results)
        /\ \A k \in DOMAIN report.results : report.results[k].action_id = k

ReportCountsResultsWitness ==
    /\ Returned
    /\ report.completed_actions = 1
    /\ report.failed_actions = 1
    /\ ~report.results[1].success

\* C38: when execute returns, on_action_complete has been called for every
\* action that has a result, the failing action that stops the run included.
EveryResultNotified ==
    Returned => actionNotified.completed = Len(report.results)

\* C39: an execution that has begun eventually returns, when every pause()
\* issued during it is followed by resume() or abort(); a pause() from
\* before the execution began does not block it.
ExecutionReturns == (pc = "open_url") ~> Returned

(***************************************************************************)
(* Properties of the scroll buffer of the recorder among other events.     *)
(***************************************************************************)

ScrollTotal(acts) == SumDy(SelectSeq(acts, IsScroll))

\* C34: the deltas of the scroll events accepted while recording and not
\* paused are conserved: when a burst ends, by the timer or by
\* stop_recording, paused or not, the sum of dy over the MOUSE_SCROLL
\* actions of the list grows by the sum of the burst's deltas, and no other
\* step of a recording changes it.
ScrollConservation ==
    [][IF BurstEnds
       THEN ScrollTotal(actions') = ScrollTotal(actions) + SumDy(burst)
       ELSE is_recording => ScrollTotal(actions') = ScrollTotal(actions)]_vars

IsClick(a) == a.action_type \in {"mouse_click", "mouse_right_click"}

\* C35: the action list is in the order of the input events: a click made
\* while a scroll burst is still pending (less than 0.3 s after its last
\* event) is appended after the MOUSE_SCROLL action of that burst.
ClickListedAfterPendingScroll ==
    [][(is_recording /\ ~paused /\ scroll_pending
          /\ Len(actions') > Len(actions) /\ IsClick(actions'[Len(actions')]))
       => \E k \in (Len(actions) + 1) .. Len(actions') : IsScroll(actions'[k])]_vars

(***************************************************************************)
(* Properties of the text typed into marked fields and while paused.       *)
(***************************************************************************)

\* The step appends a KEY_TYPE action to the list: its text is the pending
\* text, whose characters have the tags of typed_tags.
KeyTypeAppended ==
    /\ Len(actions') > Len(actions)
    /\ \E k \in (Len(actions) + 1) .. Len(actions') :
          actions'[k].action_type = "key_type" /\ actions'[k].text # <<>>

\* C33: no character typed into a marked field, between mark_sensitive_input
\* and end_sensitive_input or stop_recording, is in the text of a KEY_TYPE
\* action of the list, whatever flushes the text partway.
MarkedTextNotRecorded ==
    [][KeyTypeAppended => \A k \in DOMAIN typed_tags : ~typed_tags[k].marked]_vars

\* C36: no character typed while the recorder was paused is in the text of
\* an action of the list.
PausedTextNotRecorded ==
    [][KeyTypeAppended => \A k \in DOMAIN typed_tags : ~typed_tags[k].paused]_vars
====
